---------------------------- MODULE Spec2Model ----------------------------
(***************************************************************************)
(* Model of the outcome-canada data pipeline:                              *)
(*   canada-data/fetch_minister_data.py  (fetch_vector, the compute_*      *)
(*       strategies, main)                                                 *)
(*   canada-data/fetch_official_data.py  (fetch_indicator_data, main)      *)
(*   canada-data/extract_official_data.py (get_latest_official_value,      *)
(*       main)                                                             *)
(*   build_site.py  (read_official_data, format_value,                     *)
(*       format_absolute_value, get_change_sentiment, generate_home_page)  *)
(*                                                                         *)
(* Python values are encoded so that TLC can compare them:                 *)
(*   None            the record [tag |-> "None"]                           *)
(*   a returned list the record [tag |-> "list", items |-> <<...>>]        *)
(*   a date string   "YYYY-MM-DD" is the triple <<y, m, d>>; the empty     *)
(*                   string is <<>>                                        *)
(*   a JSON value    [k |-> "num", n |-> i], [k |-> "null", n |-> 0] or    *)
(*                   [k |-> "str", n |-> 0] (a non-numeric string)         *)
(*   a float         an exact rational <<num, den>>, den > 0, in lowest    *)
(*                   terms (the model computes in exact arithmetic)        *)
(***************************************************************************)
EXTENDS Integers, Sequences, FiniteSets, TLC

VARIABLES
    script,        \* which program runs: "fetch_minister_data",
                   \* "fetch_official_data" or "extract_official_data"
    remote,        \* what the data service holds: series id -> vectorDataPoint list
    config,        \* MINISTER_VECTOR_MAP: sequence of metric configurations
    all_vectors,   \* main: ids to fetch, in dict insertion order
    vi,            \* main: position of the fetch loop in all_vectors
    pc,            \* control position
    attempt,       \* fetch_vector: loop variable of range(3)
    outcomes,      \* how each attempt of the running fetch ended
    log,           \* requests issued and sleeps elapsed, in order
    ret,           \* return value of the fetch call
    fetched_data,  \* main: series id -> fetched series
    calls,         \* series id -> number of fetch calls made for it
    success,       \* main: success counter
    fail,          \* main: fail counter
    mi,            \* main: position of the compute loop in config
    results,       \* main: metric key -> latest block
    output,        \* minister_latest.json as written
    statcan_raw,   \* extract_official_data: the cached frame statcan_raw.csv
    latest_csv,    \* extract_official_data: latest.csv as written
    official_csv,  \* build_site: the file official_data.csv of the indicator
    site_data,     \* build_site: all_data, indicator key -> what was read
    card,          \* build_site: the indicator's summary card
    all_history    \* build_site: indicator key -> rows read for the chart

vars == <<script, remote, config, all_vectors, vi, pc, attempt, outcomes, log,
          ret, fetched_data, calls, success, fail, mi, results, output,
          statcan_raw, latest_csv, official_csv, site_data, card, all_history>>

-----------------------------------------------------------------------------
(* Bounds of the model *)

\* longest vectorDataPoint list the service returns in the single-fetch runs
MaxPoints == 2
\* largest raw value in a vectorDataPoint of the single-fetch runs
MaxFetchVal == 1

(* Program constants *)

\* fetch_vector: for attempt in range(3)
MaxAttempts == 3
\* fetch_vector: time.sleep(5)
RetryDelay == 5
\* main: time.sleep(2)
PacingDelay == 2

-----------------------------------------------------------------------------
(* Python values *)

None == [tag |-> "None"]

Last(s) == s[Len(s)]

\* s[a..b] as a sequence
Slice(s, a, b) == [i \in 1..(b - a + 1) |-> s[a + i - 1]]

\* the keys of a dict modelled as a function
Has(d, k) == k \in DOMAIN d

\* a list as a return value that may also be None
List(items) == [tag |-> "list", items |-> items]

\* "not d.get(k)": the key is missing or its list is empty
Falsy(d, k) == k \notin DOMAIN d \/ d[k] = <<>>

\* d[k] = v on a dict
Put(d, k, v) == [x \in DOMAIN d \cup {k} |-> IF x = k THEN v ELSE d[x]]

-----------------------------------------------------------------------------
(* Dates.  The code compares date strings and takes their difference in     *)
(* days through datetime.strptime(..., "%Y-%m-%d").                         *)

\* string comparison of two "YYYY-MM-DD" strings (list.sort key)
DateLess(a, b) ==
    \/ a[1] < b[1]
    \/ a[1] = b[1] /\ a[2] < b[2]
    \/ a[1] = b[1] /\ a[2] = b[2] /\ a[3] < b[3]

IsLeap(y) == (y % 4 = 0) /\ ((y % 100 # 0) \/ (y % 400 = 0))

DaysBeforeMonth(y, m) ==
    LET t == <<0, 31, 59, 90, 120, 151, 181, 212, 243, 273, 304, 334>>
    IN t[m] + (IF m > 2 /\ IsLeap(y) THEN 1 ELSE 0)

\* datetime.toordinal(): days since 0001-01-01, plus one
ToOrdinal(date) ==
    LET y == date[1] - 1
    IN y * 365 + (y \div 4) - (y \div 100) + (y \div 400)
       + DaysBeforeMonth(date[1], date[2]) + date[3]

\* (d1 - d2).days
DaysBetween(d1, d2) == ToOrdinal(d1) - ToOrdinal(d2)

-----------------------------------------------------------------------------
(* The service's answers *)

NumVal(i) == [k |-> "num", n |-> i]
NullVal == [k |-> "null", n |-> 0]
StrVal == [k |-> "str", n |-> 0]

\* a missing refPer
NoRef == <<>>

FetchDates == {<<2024, 1, 1>>, <<2024, 2, 1>>, <<2025, 1, 1>>}

FetchPoints ==
    [refPer : {NoRef} \cup FetchDates,
     value : {NullVal, StrVal} \cup {NumVal(i) : i \in 0..MaxFetchVal}]

RECURSIVE SeqsUpTo(_, _)
SeqsUpTo(S, n) ==
    IF n = 0 THEN {<<>>}
    ELSE LET shorter == SeqsUpTo(S, n - 1)
         IN shorter \cup {Append(s, x) : s \in {t \in shorter : Len(t) = n - 1}, x \in S}

\* vectorDataPoint lists of the single-fetch runs
FetchPayloads == SeqsUpTo(FetchPoints, MaxPoints)

\* how one request can end
Kinds == {"error", "http", "failed", "ok"}

-----------------------------------------------------------------------------
(* fetch_vector / fetch_indicator_data: turning points into a series *)

\* if ref and val is not None
Kept(p) == p.refPer # NoRef /\ p.value # NullVal

\* float(val) raises ValueError on a non-numeric string
FloatRaises(points) ==
    \E i \in 1..Len(points) : Kept(points[i]) /\ points[i].value.k = "str"

\* {"date": ref, "value": float(val)}
Observation(p) == [date |-> p.refPer, value |-> p.value.n]

RECURSIVE Collect(_)
Collect(points) ==
    IF points = <<>> THEN <<>>
    ELSE LET rest == Collect(Tail(points))
         IN IF Kept(Head(points)) THEN <<Observation(Head(points))>> \o rest ELSE rest

\* insert x after every element whose date is not greater (stable)
RECURSIVE InsertByDate(_, _)
InsertByDate(sorted, x) ==
    IF sorted = <<>> THEN <<x>>
    ELSE IF DateLess(x.date, Head(sorted).date) THEN <<x>> \o sorted
    ELSE <<Head(sorted)>> \o InsertByDate(Tail(sorted), x)

\* mutant: the sort is left out
SortByDate_Unsorted(data) == data

\* data.sort(key=lambda x: x["date"]): a stable sort on the date string
RECURSIVE SortByDate(_)
SortByDate(data) ==
    IF data = <<>> THEN <<>>
    ELSE InsertByDate(SortByDate(Slice(data, 1, Len(data) - 1)), Last(data))

Req(id) == [ev |-> "request", id |-> id, secs |-> 0]
Sleep(n) == [ev |-> "sleep", id |-> "", secs |-> n]

\* the except branch: print, time.sleep(5), and the loop goes on
OnException ==
    [delay |-> RetryDelay, returns |-> FALSE, value |-> None, kind |-> "error"]

\* mutant: a non-200 status gives up at once
OnHttpStatus_GivesUp ==
    [delay |-> 0, returns |-> TRUE, value |-> None, kind |-> "http"]

\* resp.status_code != 200: print, time.sleep(5), continue
OnHttpStatus ==
    [delay |-> RetryDelay, returns |-> FALSE, value |-> None, kind |-> "http"]

\* not result or result[0].get("status") == "FAILED": return None
OnFailedBody ==
    [delay |-> 0, returns |-> TRUE, value |-> None, kind |-> "failed"]

\* mutant: the retry delay is slept after a good answer too
OnBody_SleepsToo(points) ==
    IF FloatRaises(points) THEN OnException
    ELSE LET data == SortByDate(Collect(points))
         IN [delay |-> RetryDelay, returns |-> TRUE,
             value |-> IF data # <<>> THEN List(data) ELSE None, kind |-> "ok"]

\* a 200 answer with a body: collect, sort, return data if data else None;
\* a ValueError of float() lands in the except branch
OnBody(points) ==
    IF FloatRaises(points) THEN OnException
    ELSE LET data == SortByDate(Collect(points))
         IN [delay |-> 0, returns |-> TRUE,
             value |-> IF data # <<>> THEN List(data) ELSE None, kind |-> "ok"]

\* one pass of the body of fetch_vector's loop on an answer of the given kind
AttemptResult(kind, points) ==
    CASE kind = "error" -> OnException
      [] kind = "http" -> OnHttpStatus
      [] kind = "failed" -> OnFailedBody
      [] OTHER -> OnBody(points)

\* mutant: the loop has no bound
LoopOver_Unbounded(returned, n) == returned

\* the loop of fetch_vector ends on a return or when range(3) is exhausted
LoopOver(returned, n) == returned \/ n >= MaxAttempts

\* fetch_indicator_data: one request, every non-success returns None
fetch_indicator_data(kind, points) ==
    IF kind # "ok" THEN None
    ELSE IF points = <<>> THEN None
    ELSE IF FloatRaises(points) THEN None
    ELSE LET data == Collect(points)
         IN IF data = <<>> THEN None ELSE List(SortByDate(data))

-----------------------------------------------------------------------------
(* Floats, computed exactly as rationals <<num, den>> *)

Abs(i) == IF i < 0 THEN -i ELSE i

RECURSIVE Gcd(_, _)
Gcd(a, b) == IF b = 0 THEN a ELSE Gcd(b, a % b)

\* the rational n/d (d # 0) in lowest terms with a positive denominator
Rat(n, d) ==
    LET g == Gcd(Abs(n), Abs(d))
        sgn == IF d < 0 THEN -1 ELSE 1
    IN <<(sgn * n) \div g, (sgn * d) \div g>>

FromInt(i) == <<i, 1>>
RAdd(x, y) == Rat(x[1] * y[2] + y[1] * x[2], x[2] * y[2])
RSub(x, y) == Rat(x[1] * y[2] - y[1] * x[2], x[2] * y[2])
RMul(x, y) == Rat(x[1] * y[1], x[2] * y[2])
\* x / y, for y # 0
RDiv(x, y) == Rat(x[1] * y[2], x[2] * y[1])
RNeg(x) == <<-x[1], x[2]>>
RAbs(x) == <<Abs(x[1]), x[2]>>
RIsZero(x) == x[1] = 0
RGeq0(x) == x[1] >= 0
RLeq0(x) == x[1] <= 0

RECURSIVE Pow10(_)
Pow10(k) == IF k = 0 THEN 1 ELSE 10 * Pow10(k - 1)

\* a non-negative rational rounded to k decimals, as the integer of its
\* digits (round-half-even, as format() rounds a decimal tie)
RoundDigits(x, k) ==
    LET n == x[1] * Pow10(k)
        q == n \div x[2]
        r == n % x[2]
    IN IF 2 * r > x[2] THEN q + 1
       ELSE IF 2 * r < x[2] THEN q
       ELSE IF q % 2 = 0 THEN q ELSE q + 1

\* a format template "<pre>{:.<dec>f}<suf>" (a thousands separator, as in
\* "{:,.0f}", changes no digit and is left out)
Template(pre, dec, suf) == [pre |-> pre, dec |-> dec, suf |-> suf]

\* template.format(x): the sign and the digits of the text
FormatWith(template, x) ==
    [pre |-> template.pre, neg |-> x[1] < 0,
     digits |-> RoundDigits(RAbs(x), template.dec),
     dec |-> template.dec, suf |-> template.suf]

-----------------------------------------------------------------------------
(* Frequency classifier and period labels *)

\* data[i] for a negative Python index i
Idx(data, i) == data[Len(data) + i + 1]

\* whether data[i] exists for a negative index i (else IndexError)
CanIdx(data, i) == -i <= Len(data)

\* the gap in days between the last two points
LastGap(data) == DaysBetween(Idx(data, -1).date, Idx(data, -2).date)

is_quarterly(data) == IF Len(data) < 2 THEN FALSE ELSE LastGap(data) > 60

\* get_yoy_index returns None: encoded as 0, which is no lookback index
NoIndex == 0

\* mutant: a year is taken to be more than 365 days
is_annual_OverAYear(data) == IF Len(data) < 2 THEN FALSE ELSE LastGap(data) > 365

is_annual(data) == IF Len(data) < 2 THEN FALSE ELSE LastGap(data) > 300

\* mutant: a monthly series is looked back 12 observations
get_yoy_index_TwelveBack(data) ==
    IF is_annual(data) THEN (IF Len(data) >= 2 THEN -2 ELSE NoIndex)
    ELSE IF is_quarterly(data) THEN (IF Len(data) >= 5 THEN -5 ELSE NoIndex)
    ELSE (IF Len(data) >= 12 THEN -12 ELSE NoIndex)

get_yoy_index(data) ==
    IF is_annual(data) THEN (IF Len(data) >= 2 THEN -2 ELSE NoIndex)
    ELSE IF is_quarterly(data) THEN (IF Len(data) >= 5 THEN -5 ELSE NoIndex)
    ELSE (IF Len(data) >= 13 THEN -13 ELSE NoIndex)

\* period labels: "YYYY-MM", "YYYY-Qn", "YYYY", "YYYY/YYYY"
MonthLabel(date) == [kind |-> "month", y |-> date[1], n |-> date[2]]
QuarterLabel(date) == [kind |-> "quarter", y |-> date[1], n |-> (date[2] - 1) \div 3 + 1]
YearLabel(date) == [kind |-> "year", y |-> date[1], n |-> 0]
SpanLabel(year) == [kind |-> "span", y |-> year, n |-> year + 1]

format_period(date, quarterly) ==
    IF quarterly THEN QuarterLabel(date) ELSE MonthLabel(date)

\* data[-1]["date"][:4] if is_annual(data) else format_period(..., is_quarterly(data))
PeriodOf(data) ==
    IF is_annual(data) THEN YearLabel(Idx(data, -1).date)
    ELSE format_period(Idx(data, -1).date, is_quarterly(data))

-----------------------------------------------------------------------------
(* Detail line and sentiment *)

\* the empty detail string
EmptyText == [arrow |-> "", digits |-> 0, unit |-> "", span |-> ""]

Arrow(change) == IF RGeq0(change) THEN "up" ELSE "down"

\* f"{arrow} {abs(change):.1f} pp year over year" or "...% year over year"
DetailText(change, unit, span) ==
    [arrow |-> Arrow(change), digits |-> RoundDigits(RAbs(change), 1),
     unit |-> IF unit = "pp" THEN "pp" ELSE "%", span |-> span]

\* the colour rule shared by format_detail and compute_level_qoq_pct
ColorOf(change, direction) ==
    IF direction = "positive" THEN (IF RGeq0(change) THEN "positive" ELSE "negative")
    ELSE IF direction = "negative" THEN (IF RLeq0(change) THEN "positive" ELSE "negative")
    ELSE "neutral"

format_detail(change, unit, direction) ==
    [detail |-> DetailText(change, unit, "year over year"),
     color |-> ColorOf(change, direction)]

NoComparison == [detail |-> EmptyText, color |-> "neutral"]

-----------------------------------------------------------------------------
(* Strategy results *)

\* an uncaught exception leaving the strategy
Raise == [tag |-> "Raise"]

Block(value, cmp, period) ==
    [tag |-> "ok", value |-> value, detail |-> cmp.detail,
     detail_color |-> cmp.color, period |-> period]

\* ((a / b) - 1) * 100
PctChange(a, b) == RMul(RSub(RDiv(a, b), FromInt(1)), FromInt(100))

Val(obs) == FromInt(obs.value)

-----------------------------------------------------------------------------
(* Metric configurations (minister_vectors.py) *)

Vec(id, periods, label, role) ==
    [id |-> id, periods |-> periods, label |-> label, role |-> role]

\* one entry of MINISTER_VECTOR_MAP; has_population says whether the key
\* "population_vectors" is present
Metric(key, vectors, compute, direction, template, scalar) ==
    [key |-> key, vectors |-> vectors, compute |-> compute,
     direction |-> direction, format_value |-> template, scalar |-> scalar,
     has_population |-> FALSE, population_vectors |-> <<>>, period_format |-> ""]

-----------------------------------------------------------------------------
(* The compute strategies (fetch_minister_data.py) *)

compute_rate_yoy_pp(cfg, all_data) ==
    LET id == cfg.vectors[1].id
    IN IF Falsy(all_data, id) THEN None
       ELSE LET data == all_data[id]
                yoy_idx == get_yoy_index(data)
            IN IF Len(data) < 2 THEN None
               ELSE IF yoy_idx = NoIndex THEN None
               ELSE IF ~CanIdx(data, yoy_idx) THEN Raise
               ELSE LET latest_val == Val(Idx(data, -1))
                        yoy_val == Val(Idx(data, yoy_idx))
                        pp_change == RSub(latest_val, yoy_val)
                    IN Block(FormatWith(cfg.format_value, latest_val),
                             format_detail(pp_change, "pp", cfg.direction),
                             PeriodOf(data))

compute_level_yoy_pct(cfg, all_data) ==
    LET id == cfg.vectors[1].id
    IN IF Falsy(all_data, id) THEN None
       ELSE LET data == all_data[id]
                yoy_idx == get_yoy_index(data)
            IN IF Len(data) < 2 THEN None
               ELSE IF cfg.scalar = 0 THEN Raise
               ELSE IF yoy_idx = NoIndex THEN None
               ELSE IF ~CanIdx(data, yoy_idx) THEN Raise
               ELSE LET latest_val == Val(Idx(data, -1))
                        display_val == RDiv(latest_val, FromInt(cfg.scalar))
                        yoy_val == Val(Idx(data, yoy_idx))
                        pct_change == IF ~RIsZero(yoy_val)
                                      THEN PctChange(latest_val, yoy_val)
                                      ELSE FromInt(0)
                    IN Block(FormatWith(cfg.format_value, display_val),
                             format_detail(pct_change, "%", cfg.direction),
                             PeriodOf(data))

compute_level_qoq_pct(cfg, all_data) ==
    LET id == cfg.vectors[1].id
    IN IF Falsy(all_data, id) THEN None
       ELSE LET data == all_data[id]
            IN IF Len(data) < 2 THEN None
               ELSE IF cfg.scalar = 0 THEN Raise
               ELSE LET latest_val == Val(Idx(data, -1))
                        display_val == RDiv(latest_val, FromInt(cfg.scalar))
                        prev_val == Val(Idx(data, -2))
                        pct_change == IF ~RIsZero(prev_val)
                                      THEN PctChange(latest_val, prev_val)
                                      ELSE FromInt(0)
                    IN Block(FormatWith(cfg.format_value, display_val),
                             [detail |-> DetailText(pct_change, "%", "quarter over quarter"),
                              color |-> ColorOf(pct_change, cfg.direction)],
                             format_period(Idx(data, -1).date, TRUE))

\* mutant: without the "if not data" guard a missing series raises TypeError
compute_count_yoy_pct_Unguarded(cfg, all_data) ==
    IF Falsy(all_data, cfg.vectors[1].id) THEN Raise
    ELSE compute_level_yoy_pct(cfg, all_data)

compute_count_yoy_pct(cfg, all_data) == compute_level_yoy_pct(cfg, all_data)

\* mutant: the pair is taken by position, the first vector as the total or
\* reference group and the second as the subset or compared group
IdOfLabel_ByPosition(vectors, label) ==
    IF label \in {"total_exports", "male_wage"} THEN vectors[1].id ELSE vectors[2].id

\* the id of the last vector carrying the label, or None (the string "None",
\* which is no key of the cache)
RECURSIVE IdOfLabel(_, _)
IdOfLabel(vectors, label) ==
    IF vectors = <<>> THEN "None"
    ELSE IF Last(vectors).label = label THEN Last(vectors).id
    ELSE IdOfLabel(Slice(vectors, 1, Len(vectors) - 1), label)

\* (1 - b / a) * 100
SharePct(a, b) == RMul(RSub(FromInt(1), RDiv(b, a)), FromInt(100))

\* ((a - b) / a) * 100
GapPct(a, b) == RMul(RDiv(RSub(a, b), a), FromInt(100))

compute_share_pct(cfg, all_data) ==
    LET total_vec == IdOfLabel(cfg.vectors, "total_exports")
        us_vec == IdOfLabel(cfg.vectors, "us_exports")
    IN IF Falsy(all_data, total_vec) \/ Falsy(all_data, us_vec) THEN None
       ELSE LET total_data == all_data[total_vec]
                us_data == all_data[us_vec]
                latest_total == Val(Idx(total_data, -1))
                latest_us == Val(Idx(us_data, -1))
                yoy_idx == get_yoy_index(total_data)
            IN IF RIsZero(latest_total) THEN None
               ELSE LET share == SharePct(latest_total, latest_us)
                        compared == yoy_idx # NoIndex /\ Len(us_data) >= Abs(yoy_idx)
                    IN IF compared /\ ~(CanIdx(total_data, yoy_idx) /\ CanIdx(us_data, yoy_idx))
                       THEN Raise
                       ELSE LET cmp ==
                                  IF compared
                                  THEN LET prev_total == Val(Idx(total_data, yoy_idx))
                                           prev_us == Val(Idx(us_data, yoy_idx))
                                           prev_share == IF ~RIsZero(prev_total)
                                                         THEN SharePct(prev_total, prev_us)
                                                         ELSE FromInt(0)
                                       IN format_detail(RSub(share, prev_share), "pp",
                                                        cfg.direction)
                                  ELSE NoComparison
                            IN Block(FormatWith(cfg.format_value, share), cmp,
                                     format_period(Idx(total_data, -1).date,
                                                   is_quarterly(total_data)))

compute_wage_gap(cfg, all_data) ==
    LET male_vec == IdOfLabel(cfg.vectors, "male_wage")
        female_vec == IdOfLabel(cfg.vectors, "female_wage")
    IN IF Falsy(all_data, male_vec) \/ Falsy(all_data, female_vec) THEN None
       ELSE LET male_data == all_data[male_vec]
                female_data == all_data[female_vec]
                male_val == Val(Idx(male_data, -1))
                female_val == Val(Idx(female_data, -1))
                yoy_idx == get_yoy_index(male_data)
            IN IF RIsZero(male_val) THEN None
               ELSE LET gap == GapPct(male_val, female_val)
                        compared == yoy_idx # NoIndex /\ Len(female_data) >= Abs(yoy_idx)
                    IN IF compared /\ ~(CanIdx(male_data, yoy_idx) /\ CanIdx(female_data, yoy_idx))
                       THEN Raise
                       ELSE LET cmp ==
                                  IF compared
                                  THEN LET prev_male == Val(Idx(male_data, yoy_idx))
                                           prev_female == Val(Idx(female_data, yoy_idx))
                                           prev_gap == IF ~RIsZero(prev_male)
                                                       THEN GapPct(prev_male, prev_female)
                                                       ELSE FromInt(0)
                                       IN format_detail(RSub(gap, prev_gap), "pp",
                                                        cfg.direction)
                                  ELSE NoComparison
                            IN Block(FormatWith(cfg.format_value, gap), cmp,
                                     IF is_annual(male_data)
                                     THEN YearLabel(Idx(male_data, -1).date)
                                     ELSE format_period(Idx(male_data, -1).date, FALSE))

RECURSIVE RSum(_)
RSum(xs) == IF xs = <<>> THEN FromInt(0) ELSE RAdd(Head(xs), RSum(Tail(xs)))

Min(a, b) == IF a < b THEN a ELSE b

\* mutant: every value is paired with the weight of the series at the
\* opposite end of the list
WeightedSum_CrossPaired(values, weights) ==
    RSum([i \in 1..Min(Len(values), Len(weights)) |->
            RMul(values[i], weights[Len(weights) + 1 - i])])

\* sum(v * w for v, w in zip(values, weights))
WeightedSum(values, weights) ==
    RSum([i \in 1..Min(Len(values), Len(weights)) |-> RMul(values[i], weights[i])])

\* some vector of the list has no data in the cache
AnyFalsy(vecs, all_data) == \E i \in 1..Len(vecs) : Falsy(all_data, vecs[i].id)

\* data[i]["value"] of every vector of the list
ValuesAt(vecs, all_data, i) ==
    [k \in 1..Len(vecs) |-> Val(Idx(all_data[vecs[k].id], i))]

\* data[yoy_idx] exists for every vector of the list (else IndexError)
AllCanIdx(vecs, all_data, yoy_idx) ==
    \A k \in 1..Len(vecs) : CanIdx(all_data[vecs[k].id], yoy_idx)

\* mutant: only "data" is tested before data[yoy_idx] is read, not its length
AllReach_LengthUntested(vecs, all_data, yoy_idx) ==
    \A k \in 1..Len(vecs) : ~Falsy(all_data, vecs[k].id)

\* "data and len(data) >= abs(yoy_idx)" for every vector of the list
AllReach(vecs, all_data, yoy_idx) ==
    \A k \in 1..Len(vecs) :
        ~Falsy(all_data, vecs[k].id) /\ Len(all_data[vecs[k].id]) >= Abs(yoy_idx)

compute_composite_avg(cfg, all_data) ==
    IF AnyFalsy(cfg.vectors, all_data) THEN None
    ELSE IF cfg.has_population /\ AnyFalsy(cfg.population_vectors, all_data) THEN None
    ELSE LET values == ValuesAt(cfg.vectors, all_data, -1)
             weights == IF cfg.has_population
                        THEN ValuesAt(cfg.population_vectors, all_data, -1)
                        ELSE [k \in 1..Len(values) |-> FromInt(1)]
             total_weight == RSum(weights)
         IN IF RIsZero(total_weight) THEN None
            ELSE LET avg == RDiv(WeightedSum(values, weights), total_weight)
                     ref_data == all_data[cfg.vectors[1].id]
                     yoy_idx == get_yoy_index(ref_data)
                     reached == yoy_idx # NoIndex /\ AllReach(cfg.vectors, all_data, yoy_idx)
                     cmp ==
                       IF reached
                       THEN LET prev_values == ValuesAt(cfg.vectors, all_data, yoy_idx)
                                prev_avg == RDiv(WeightedSum(prev_values, weights),
                                                 total_weight)
                            IN format_detail(RSub(avg, prev_avg), "pp", cfg.direction)
                       ELSE NoComparison
                 IN IF reached /\ ~AllCanIdx(cfg.vectors, all_data, yoy_idx) THEN Raise
                    ELSE Block(FormatWith(cfg.format_value, avg), cmp,
                               format_period(Idx(ref_data, -1).date, is_quarterly(ref_data)))

compute_sum_yoy_pct(cfg, all_data) ==
    IF AnyFalsy(cfg.vectors, all_data) THEN None
    ELSE LET total == RSum(ValuesAt(cfg.vectors, all_data, -1))
             ref_data == all_data[cfg.vectors[1].id]
             yoy_idx == get_yoy_index(ref_data)
             reached == yoy_idx # NoIndex /\ AllReach(cfg.vectors, all_data, yoy_idx)
             prev_total == RSum(ValuesAt(cfg.vectors, all_data, yoy_idx))
             cmp == IF reached /\ ~RIsZero(prev_total)
                    THEN format_detail(PctChange(total, prev_total), "%", cfg.direction)
                    ELSE NoComparison
         IN IF reached /\ ~AllCanIdx(cfg.vectors, all_data, yoy_idx) THEN Raise
            ELSE Block(FormatWith(cfg.format_value, total), cmp,
                       format_period(Idx(ref_data, -1).date, is_quarterly(ref_data)))

\* [v for v in config["vectors"] if v.get("role") == role]
WithRole(vectors, role) == SelectSeq(vectors, LAMBDA v : v.role = role)

\* mutant: the average of the per-series rates instead of the ratio of sums
compute_combined_rate_AverageOfRates(cfg, all_data) ==
    LET num_vecs == WithRole(cfg.vectors, "numerator")
        den_vecs == WithRole(cfg.vectors, "denominator")
    IN IF num_vecs = <<>> \/ den_vecs = <<>> THEN None
       ELSE IF AnyFalsy(num_vecs, all_data) \/ AnyFalsy(den_vecs, all_data) THEN None
       ELSE LET nums == ValuesAt(num_vecs, all_data, -1)
                dens == ValuesAt(den_vecs, all_data, -1)
                n == Min(Len(nums), Len(dens))
                rates == [k \in 1..n |-> RMul(RDiv(nums[k], dens[k]), FromInt(100))]
                ref_data == all_data[num_vecs[1].id]
            IN Block(FormatWith(cfg.format_value, RDiv(RSum(rates), FromInt(n))),
                     NoComparison,
                     format_period(Idx(ref_data, -1).date, is_quarterly(ref_data)))

compute_combined_rate(cfg, all_data) ==
    LET num_vecs == WithRole(cfg.vectors, "numerator")
        den_vecs == WithRole(cfg.vectors, "denominator")
    IN IF num_vecs = <<>> \/ den_vecs = <<>> THEN None
       ELSE IF AnyFalsy(num_vecs, all_data) \/ AnyFalsy(den_vecs, all_data) THEN None
       ELSE LET num_total == RSum(ValuesAt(num_vecs, all_data, -1))
                den_total == RSum(ValuesAt(den_vecs, all_data, -1))
            IN IF RIsZero(den_total) THEN None
               ELSE LET rate == RMul(RDiv(num_total, den_total), FromInt(100))
                        ref_data == all_data[num_vecs[1].id]
                        yoy_idx == get_yoy_index(ref_data)
                        ok == /\ yoy_idx # NoIndex
                              /\ AllReach(num_vecs, all_data, yoy_idx)
                              /\ AllReach(den_vecs, all_data, yoy_idx)
                        prev_num == RSum(ValuesAt(num_vecs, all_data, yoy_idx))
                        prev_den == RSum(ValuesAt(den_vecs, all_data, yoy_idx))
                        cmp == IF ok /\ ~RIsZero(prev_den)
                               THEN LET prev_rate == RMul(RDiv(prev_num, prev_den),
                                                          FromInt(100))
                                    IN format_detail(RSub(rate, prev_rate), "pp",
                                                     cfg.direction)
                               ELSE NoComparison
                    IN IF ok /\ ~(AllCanIdx(num_vecs, all_data, yoy_idx)
                                  /\ AllCanIdx(den_vecs, all_data, yoy_idx))
                       THEN Raise
                       ELSE Block(FormatWith(cfg.format_value, rate), cmp,
                                  format_period(Idx(ref_data, -1).date,
                                                is_quarterly(ref_data)))

\* the keys of COMPUTE_FUNCTIONS
COMPUTE_FUNCTIONS ==
    {"rate_yoy_pp", "level_yoy_pct", "level_qoq_pct", "count_yoy_pct", "share_pct",
     "wage_gap", "composite_avg", "sum_yoy_pct", "combined_rate"}

\* COMPUTE_FUNCTIONS[config["compute"]](config, all_data)
Compute(cfg, all_data) ==
    CASE cfg.compute = "rate_yoy_pp" -> compute_rate_yoy_pp(cfg, all_data)
      [] cfg.compute = "level_yoy_pct" -> compute_level_yoy_pct(cfg, all_data)
      [] cfg.compute = "level_qoq_pct" -> compute_level_qoq_pct(cfg, all_data)
      [] cfg.compute = "count_yoy_pct" -> compute_count_yoy_pct(cfg, all_data)
      [] cfg.compute = "share_pct" -> compute_share_pct(cfg, all_data)
      [] cfg.compute = "wage_gap" -> compute_wage_gap(cfg, all_data)
      [] cfg.compute = "composite_avg" -> compute_composite_avg(cfg, all_data)
      [] cfg.compute = "sum_yoy_pct" -> compute_sum_yoy_pct(cfg, all_data)
      [] cfg.compute = "combined_rate" -> compute_combined_rate(cfg, all_data)

-----------------------------------------------------------------------------
(* One call of a fetch function *)

CurrentId == all_vectors[vi].id

\* one pass of "for attempt in range(3)" of fetch_vector
Attempt ==
    /\ pc = "fetch"
    /\ script = "fetch_minister_data"
    /\ \E kind \in Kinds :
         LET r == AttemptResult(kind, remote[CurrentId])
             slept == IF r.delay > 0 THEN <<Sleep(r.delay)>> ELSE <<>>
             over == LoopOver(r.returns, attempt + 1)
         IN /\ log' = log \o <<Req(CurrentId)>> \o slept
            /\ outcomes' = Append(outcomes, r.kind)
            /\ attempt' = attempt + 1
            /\ pc' = IF over THEN "fetched" ELSE "fetch"
            /\ ret' = IF r.returns THEN r.value ELSE None
    /\ UNCHANGED <<script, remote, config, all_vectors, vi, fetched_data, calls,
                   success, fail, mi, results, output,
                   statcan_raw, latest_csv,
                   official_csv, site_data, card, all_history>>

\* the call of fetch_indicator_data
IndicatorFetch ==
    /\ pc = "fetch"
    /\ script = "fetch_official_data"
    /\ \E kind \in Kinds :
         /\ log' = Append(log, Req(CurrentId))
         /\ outcomes' = Append(outcomes, kind)
         /\ ret' = fetch_indicator_data(kind, remote[CurrentId])
    /\ attempt' = attempt + 1
    /\ pc' = "fetched"
    /\ UNCHANGED <<script, remote, config, all_vectors, vi, fetched_data, calls,
                   success, fail, mi, results, output,
                   statcan_raw, latest_csv,
                   official_csv, site_data, card, all_history>>

\* a single call fetch(series_id, count) on any answer of the service
InitFetch ==
    /\ script \in {"fetch_minister_data", "fetch_official_data"}
    /\ remote \in [{"v2062815"} -> FetchPayloads]
    /\ config = <<>>
    /\ all_vectors = <<[id |-> "v2062815", periods |-> 24]>>
    /\ vi = 1
    /\ pc = "fetch"
    /\ attempt = 0
    /\ outcomes = <<>>
    /\ log = <<>>
    /\ ret = None
    /\ fetched_data = <<>>
    /\ calls = [id \in {"v2062815"} |-> 1]
    /\ success = 0
    /\ fail = 0
    /\ mi = 1
    /\ results = <<>>
    /\ output = None
    /\ statcan_raw = None
    /\ latest_csv = None
    /\ official_csv = None
    /\ site_data = <<>>
    /\ card = None
    /\ all_history = <<>>

NextFetch == Attempt \/ IndicatorFetch

SpecFetch == InitFetch /\ [][NextFetch]_vars

-----------------------------------------------------------------------------
(* A batch run: main() of fetch_minister_data.py and of fetch_official_data.py *)

\* every vector reference of the map, in iteration order: a metric's vectors,
\* then its population_vectors
RECURSIVE References(_)
References(cfgs) ==
    IF cfgs = <<>> THEN <<>>
    ELSE LET c == Head(cfgs)
             own == [i \in 1..Len(c.vectors) |->
                        [id |-> c.vectors[i].id, periods |-> c.vectors[i].periods]]
             pop == IF c.has_population
                    THEN [i \in 1..Len(c.population_vectors) |->
                             [id |-> c.population_vectors[i].id,
                              periods |-> c.population_vectors[i].periods]]
                    ELSE <<>>
         IN own \o pop \o References(Tail(cfgs))

\* all_vectors[id] = periods for every reference: a dict keeps the position
\* of a key's first insertion and the value of its last
RECURSIVE AsDict(_)
AsDict(refs) ==
    IF refs = <<>> THEN <<>>
    ELSE LET before == AsDict(Slice(refs, 1, Len(refs) - 1))
             r == Last(refs)
         IN IF \E i \in 1..Len(before) : before[i].id = r.id
            THEN [i \in 1..Len(before) |-> IF before[i].id = r.id THEN r ELSE before[i]]
            ELSE Append(before, r)

\* mutant: one entry per reference, no deduplication by id
UniqueVectors_PerReference(cfgs) == References(cfgs)

\* main: "Collect all unique vector IDs to fetch"
UniqueVectors(cfgs) == AsDict(References(cfgs))

\* the ids a metric refers to
IdsOf(cfg) ==
    {cfg.vectors[i].id : i \in 1..Len(cfg.vectors)}
    \cup (IF cfg.has_population
          THEN {cfg.population_vectors[i].id : i \in 1..Len(cfg.population_vectors)}
          ELSE {})

\* three entries of MINISTER_VECTOR_MAP; v87008956 is referred to by two
BatchConfig ==
    <<Metric("pm_unemployment", <<Vec("v2062815", 24, "", "")>>,
             "rate_yoy_pp", "negative", Template("", 1, "%"), 1),
      Metric("leblanc_exports_us", <<Vec("v87008956", 24, "", "")>>,
             "level_yoy_pct", "positive", Template("$", 1, "B"), 1000),
      Metric("leblanc_diversification",
             <<Vec("v87008955", 24, "total_exports", ""),
               Vec("v87008956", 24, "us_exports", "")>>,
             "share_pct", "positive", Template("", 1, "%"), 1)>>

BatchIds == {"v2062815", "v87008956", "v87008955"}

\* fetch_official_data.main iterates VECTOR_MAP, one vector per indicator
\* (here "unemployment" and "exports")
OfficialVectors ==
    <<[id |-> "v2062815", periods |-> 60], [id |-> "v87008955", periods |-> 60]>>

Point(date, value) == [refPer |-> date, value |-> value]

\* what the service may hold for a vector in a batch run: an annual series
\* sent newest first, a monthly series, a single zero, nothing usable
BatchPayloads ==
    {<<Point(<<2025, 1, 1>>, NumVal(3)), Point(<<2024, 1, 1>>, NumVal(2))>>,
     <<Point(<<2024, 1, 1>>, NumVal(2)), Point(<<2024, 2, 1>>, NumVal(1))>>,
     <<Point(<<2025, 1, 1>>, NumVal(0))>>,
     <<Point(<<2025, 1, 1>>, NullVal)>>}

\* the clock read by datetime.now() runs over 1..MaxClock
MaxClock == 2

Init ==
    /\ script \in {"fetch_minister_data", "fetch_official_data"}
    /\ remote \in [BatchIds -> BatchPayloads]
    /\ config = IF script = "fetch_minister_data" THEN BatchConfig ELSE <<>>
    /\ all_vectors = IF script = "fetch_minister_data" THEN <<>> ELSE OfficialVectors
    /\ vi = 1
    /\ pc = IF script = "fetch_minister_data" THEN "start" ELSE "call"
    /\ attempt = 0
    /\ outcomes = <<>>
    /\ log = <<>>
    /\ ret = None
    /\ fetched_data = <<>>
    /\ calls = [id \in BatchIds |-> 0]
    /\ success = 0
    /\ fail = 0
    /\ mi = 1
    /\ results = <<>>
    /\ output = None
    /\ statcan_raw = None
    /\ latest_csv = None
    /\ official_csv = None
    /\ site_data = <<>>
    /\ card = None
    /\ all_history = <<>>

\* main, lines 484-494: collect the unique vector ids
CollectVectors ==
    /\ pc = "start"
    /\ all_vectors' = UniqueVectors(config)
    /\ pc' = IF UniqueVectors(config) = <<>> THEN "compute" ELSE "call"
    /\ UNCHANGED <<script, remote, config, vi, attempt, outcomes, log, ret,
                   fetched_data, calls, success, fail, mi, results, output,
                   statcan_raw, latest_csv,
                   official_csv, site_data, card, all_history>>

\* the loop over all_vectors (VECTOR_MAP) calls the fetch function
CallFetch ==
    /\ pc = "call"
    /\ calls' = [calls EXCEPT ![CurrentId] = @ + 1]
    /\ attempt' = 0
    /\ outcomes' = <<>>
    /\ ret' = None
    /\ pc' = "fetch"
    /\ UNCHANGED <<script, remote, config, all_vectors, vi, log, fetched_data,
                   success, fail, mi, results, output,
                   statcan_raw, latest_csv,
                   official_csv, site_data, card, all_history>>

\* mutant: the pacing delay only follows a fetch that returned data
PaceAfter_OnlyOnSuccess(data) ==
    IF data = None THEN Sleep(0) ELSE Sleep(PacingDelay)

\* time.sleep(2) closes every iteration of the loop, whatever was fetched
PaceAfter(data) == Sleep(PacingDelay)

\* mutant: the loop over the vectors is left after its first iteration
AfterFetch_LeavesEarly(done) == done

\* where the loop over the vectors goes after an iteration
AfterFetch(done) ==
    IF vi < Len(all_vectors) THEN "call" ELSE done

\* mutant: the cache gets an entry for every vector, an empty one when the
\* fetch returned nothing
StoreAndPace_StoresWhateverCame ==
    /\ pc = "fetched"
    /\ script = "fetch_minister_data"
    /\ fetched_data' = Put(fetched_data, CurrentId, IF ret # None THEN ret.items ELSE <<>>)
    /\ success' = success + 1
    /\ fail' = fail
    /\ log' = Append(log, PaceAfter(ret))
    /\ vi' = vi + 1
    /\ pc' = AfterFetch("compute")
    /\ attempt' = 0
    /\ outcomes' = <<>>
    /\ ret' = None
    /\ UNCHANGED <<script, remote, config, all_vectors, calls, mi, results, output,
                   statcan_raw, latest_csv,
                   official_csv, site_data, card, all_history>>

\* main, lines 504-511: keep the data, count, sleep 2 s
StoreAndPace ==
    /\ pc = "fetched"
    /\ script = "fetch_minister_data"
    /\ IF ret # None
       THEN /\ fetched_data' = Put(fetched_data, CurrentId, ret.items)
            /\ success' = success + 1
            /\ fail' = fail
       ELSE /\ fetched_data' = fetched_data
            /\ success' = success
            /\ fail' = fail + 1
    /\ log' = Append(log, PaceAfter(ret))
    /\ vi' = vi + 1
    /\ pc' = AfterFetch("compute")
    /\ attempt' = 0
    /\ outcomes' = <<>>
    /\ ret' = None
    /\ UNCHANGED <<script, remote, config, all_vectors, calls, mi, results, output,
                   statcan_raw, latest_csv,
                   official_csv, site_data, card, all_history>>

\* fetch_official_data.main, lines 317-326: save the CSV (which may fail),
\* count, sleep 2 s
SaveAndPace ==
    /\ pc = "fetched"
    /\ script = "fetch_official_data"
    /\ \E saved \in (IF ret # None THEN BOOLEAN ELSE {FALSE}) :
         IF saved
         THEN /\ fetched_data' = Put(fetched_data, CurrentId, ret.items)
              /\ success' = success + 1
              /\ fail' = fail
         ELSE /\ fetched_data' = fetched_data
              /\ success' = success
              /\ fail' = fail + 1
    /\ log' = Append(log, PaceAfter(ret))
    /\ vi' = vi + 1
    /\ pc' = AfterFetch("done")
    /\ attempt' = 0
    /\ outcomes' = <<>>
    /\ ret' = None
    /\ UNCHANGED <<script, remote, config, all_vectors, calls, mi, results, output,
                   statcan_raw, latest_csv,
                   official_csv, site_data, card, all_history>>

\* main, lines 528-531: the fiscal/school year period format
WithPeriodFormat(cfg, latest) ==
    IF cfg.period_format \in {"fiscal_year", "school_year"} /\ latest.period.kind = "year"
    THEN [latest EXCEPT !.period = SpanLabel(latest.period.y)]
    ELSE latest

\* mutant: the loop over the metrics stops at the first metric without data
AfterMetric_StopsOnNoData(latest) ==
    IF latest = None \/ mi >= Len(config) THEN "save" ELSE "compute"

\* where the loop over the metrics goes after an iteration; an exception
\* raised by a strategy is not caught and ends the program
AfterMetric(latest) ==
    IF latest = Raise THEN "crashed"
    ELSE IF mi < Len(config) THEN "compute" ELSE "save"

\* main, lines 519-536: one metric of the compute loop
ComputeMetric ==
    /\ pc = "compute"
    /\ script = "fetch_minister_data"
    /\ LET cfg == config[mi]
           latest == IF cfg.compute \in COMPUTE_FUNCTIONS
                     THEN Compute(cfg, fetched_data)
                     ELSE None
       IN /\ results' = IF latest \notin {None, Raise}
                        THEN Put(results, cfg.key, WithPeriodFormat(cfg, latest))
                        ELSE results
          /\ pc' = AfterMetric(latest)
    /\ mi' = mi + 1
    /\ UNCHANGED <<script, remote, config, all_vectors, vi, attempt, outcomes, log,
                   ret, fetched_data, calls, success, fail, output,
                   statcan_raw, latest_csv,
                   official_csv, site_data, card, all_history>>

\* mutant: the clock also gets into the period of every metric
Save_ClockInMetrics ==
    /\ pc = "save"
    /\ \E now \in 1..MaxClock :
         output' = [fetched_at |-> now, count |-> Cardinality(DOMAIN results),
                    metrics |-> [k \in DOMAIN results |->
                                   [results[k] EXCEPT !.period = SpanLabel(now)]]]
    /\ pc' = "done"
    /\ UNCHANGED <<script, remote, config, all_vectors, vi, attempt, outcomes, log,
                   ret, fetched_data, calls, success, fail, mi, results,
                   statcan_raw, latest_csv,
                   official_csv, site_data, card, all_history>>

\* main, lines 538-546: write minister_latest.json
Save ==
    /\ pc = "save"
    /\ \E now \in 1..MaxClock :
         output' = [fetched_at |-> now, count |-> Cardinality(DOMAIN results),
                    metrics |-> results]
    /\ pc' = "done"
    /\ UNCHANGED <<script, remote, config, all_vectors, vi, attempt, outcomes, log,
                   ret, fetched_data, calls, success, fail, mi, results,
                   statcan_raw, latest_csv,
                   official_csv, site_data, card, all_history>>

Next ==
    \/ CollectVectors
    \/ CallFetch
    \/ Attempt
    \/ IndicatorFetch
    \/ StoreAndPace
    \/ SaveAndPace
    \/ ComputeMetric
    \/ Save

Spec == Init /\ [][Next]_vars

-----------------------------------------------------------------------------
(* The growth calculator of extract_official_data.py *)

\* one entry of INDICATOR_COLUMNS
Column(key, col, quarterly) == [key |-> key, col |-> col, quarterly |-> quarterly]

\* a cached frame: its column names and the rows of the wanted column that
\* are not NaN (df_clean)
Frame(columns, rows) == [tag |-> "frame", columns |-> columns, rows |-> rows]

\* ((latest / earlier) - 1) * 100 if there are `back` rows and the earlier
\* value is not 0, else the placeholder 0
GrowthOrZero(rows, back) ==
    IF Len(rows) >= back
    THEN (IF Idx(rows, -back).value # 0
          THEN PctChange(Val(Idx(rows, -1)), Val(Idx(rows, -back)))
          ELSE FromInt(0))
    ELSE FromInt(0)

get_latest_official_value(info, frame) ==
    IF frame = None THEN None
    ELSE IF info.col \notin frame.columns THEN None
    ELSE IF Len(frame.rows) = 0 THEN None
    ELSE LET latest == Idx(frame.rows, -1)
         IN IF info.quarterly
            THEN [tag |-> "ok", date |-> latest.date, period |-> QuarterLabel(latest.date),
                  value |-> Val(latest), short |-> GrowthOrZero(frame.rows, 2),
                  yoy |-> GrowthOrZero(frame.rows, 5)]
            ELSE [tag |-> "ok", date |-> latest.date, period |-> MonthLabel(latest.date),
                  value |-> Val(latest), short |-> GrowthOrZero(frame.rows, 2),
                  yoy |-> GrowthOrZero(frame.rows, 13)]

\* extract_official_data.main, lines 115-133: one indicator of the loop
ExtractLatest ==
    /\ pc = "compute"
    /\ script = "extract_official_data"
    /\ LET latest == get_latest_official_value(config[mi], statcan_raw)
       IN latest_csv' = IF latest # None THEN latest ELSE latest_csv
    /\ mi' = mi + 1
    /\ pc' = IF mi < Len(config) THEN "compute" ELSE "done"
    /\ UNCHANGED <<script, remote, config, all_vectors, vi, attempt, outcomes, log,
                   ret, fetched_data, calls, success, fail, results, output,
                   statcan_raw, official_csv, site_data, card, all_history>>

-----------------------------------------------------------------------------
(* The strategies and the growth calculator as functions of their inputs *)

\* observation values run over 0..MaxVal
MaxVal == 2

SeriesA == "v87008955"
SeriesB == "v87008956"

\* the date `k` steps of `step` months before 2025-01-01
DateBack(step, k) ==
    LET months == 2025 * 12 - step * k
    IN <<months \div 12, (months % 12) + 1, 1>>

\* the number of observations the year-over-year lookback needs
LookbackLen(step) == IF step = 12 THEN 2 ELSE IF step = 3 THEN 5 ELSE 13

\* a series of n observations `step` months apart, ending with `latest`,
\* with `lookback` one year before it (if n reaches that far) and 1 elsewhere
Series(step, n, latest, lookback) ==
    [i \in 1..n |->
        [date |-> DateBack(step, n - i),
         value |-> IF i = n THEN latest
                   ELSE IF i = n - LookbackLen(step) + 1 THEN lookback
                   ELSE 1]]

\* cadence (months between points) and length: below and at the lookback
Shapes == {<<1, 1>>, <<1, 12>>, <<1, 13>>, <<3, 4>>, <<3, 5>>, <<12, 2>>}

\* pairs of a gap in days and the date that many days before 2025-01-01:
\* the gaps around the classifier's thresholds
GapDates ==
    {<<30, <<2024, 12, 2>>>>, <<60, <<2024, 11, 2>>>>, <<61, <<2024, 11, 1>>>>,
     <<90, <<2024, 10, 3>>>>, <<300, <<2024, 3, 7>>>>, <<301, <<2024, 3, 6>>>>,
     <<400, <<2023, 11, 28>>>>}

\* a series of two observations that many days apart
GapPair(gd) ==
    <<[date |-> gd[2], value |-> 1], [date |-> <<2025, 1, 1>>, value |-> 1]>>

AllSeries ==
    {<<>>} \cup {Series(sh[1], sh[2], latest, lookback) :
                    sh \in Shapes, latest \in 0..MaxVal, lookback \in 0..MaxVal}
           \cup {GapPair(gd) : gd \in GapDates}

Directions == {"positive", "negative", "neutral"}

\* one metric per strategy, after entries of MINISTER_VECTOR_MAP
StrategyConfigs(direction) ==
    {Metric("pm_unemployment", <<Vec(SeriesA, 24, "", "")>>,
            "rate_yoy_pp", direction, Template("", 1, "%"), 1),
     Metric("leblanc_exports_us", <<Vec(SeriesA, 24, "", "")>>,
            "level_yoy_pct", direction, Template("$", 1, "B"), 1000),
     Metric("pm_gdp_percapita", <<Vec(SeriesA, 20, "", "")>>,
            "level_qoq_pct", direction, Template("$", 0, ""), 1),
     Metric("anandasangaree_homicides", <<Vec(SeriesA, 10, "", "")>>,
            "count_yoy_pct", direction, Template("", 0, ""), 1),
     Metric("leblanc_diversification",
            <<Vec(SeriesA, 24, "total_exports", ""), Vec(SeriesB, 24, "us_exports", "")>>,
            "share_pct", direction, Template("", 1, "%"), 1),
     Metric("valdez_wagegap",
            <<Vec(SeriesA, 10, "male_wage", ""), Vec(SeriesB, 10, "female_wage", "")>>,
            "wage_gap", direction, Template("", 1, "%"), 1),
     Metric("composite_equal", <<Vec(SeriesA, 24, "", ""), Vec(SeriesB, 24, "", "")>>,
            "composite_avg", direction, Template("", 1, "%"), 1),
     [Metric("composite_weighted", <<Vec(SeriesA, 24, "", "")>>,
             "composite_avg", direction, Template("", 1, "%"), 1)
        EXCEPT !.has_population = TRUE,
               !.population_vectors = <<Vec(SeriesB, 24, "", "")>>],
     Metric("chartrand_population", <<Vec(SeriesA, 20, "", ""), Vec(SeriesB, 20, "", "")>>,
            "sum_yoy_pct", direction, Template("", 0, ""), 1),
     Metric("chartrand_employment",
            <<Vec(SeriesA, 24, "", "numerator"), Vec(SeriesB, 24, "", "denominator")>>,
            "combined_rate", direction, Template("", 1, "%"), 1)}

\* the lookups that hold some of the given ids
Lookups(ids) == UNION {[present -> AllSeries] : present \in SUBSET ids}

InitCompute ==
    /\ script \in {"fetch_minister_data", "extract_official_data"}
    /\ remote = [id \in BatchIds |-> <<>>]
    /\ IF script = "fetch_minister_data"
       THEN /\ \E direction \in Directions : \E cfg \in StrategyConfigs(direction) :
                 /\ config = <<cfg>>
                 /\ fetched_data \in Lookups(IdsOf(cfg))
            /\ statcan_raw = None
       ELSE /\ config \in {<<Column("gdp", "gdp_monthly", TRUE)>>,
                           <<Column("inflation", "cpi", FALSE)>>}
            /\ fetched_data = <<>>
            /\ statcan_raw \in {None} \cup
                 {Frame(columns, rows) : columns \in {{}, {config[1].col}},
                                         rows \in AllSeries}
    /\ all_vectors = IF script = "fetch_minister_data" THEN UniqueVectors(config) ELSE <<>>
    /\ vi = Len(all_vectors) + 1
    /\ pc = "compute"
    /\ attempt = 0
    /\ outcomes = <<>>
    /\ log = <<>>
    /\ ret = None
    /\ calls = [id \in BatchIds |-> IF \E i \in 1..Len(all_vectors) : all_vectors[i].id = id
                                    THEN 1 ELSE 0]
    /\ success = Cardinality(DOMAIN fetched_data)
    /\ fail = Len(all_vectors) - success
    /\ mi = 1
    /\ results = <<>>
    /\ output = None
    /\ latest_csv = None
    /\ official_csv = None
    /\ site_data = <<>>
    /\ card = None
    /\ all_history = <<>>

NextCompute == ComputeMetric \/ ExtractLatest

SpecCompute == InitCompute /\ [][NextCompute]_vars

-----------------------------------------------------------------------------
(* The strategies over several series: worked inputs *)

\* the metric's vectors followed by its population vectors
VecsOf(cfg) == cfg.vectors \o cfg.population_vectors

\* the multi-series metrics: chartrand_employment and valdez_wagegap and
\* leblanc_diversification as in MINISTER_VECTOR_MAP, the pairs also in the
\* other order, and composite_avg with and without population vectors
WorkedConfigs ==
    {Metric("chartrand_employment",
            <<Vec("v46438735", 24, "yukon_emp", "numerator"),
              Vec("v46438837", 24, "nwt_emp", "numerator"),
              Vec("v99443822", 24, "nunavut_emp", "numerator"),
              Vec("v46438711", 24, "yukon_pop", "denominator"),
              Vec("v46438813", 24, "nwt_pop", "denominator"),
              Vec("v99443810", 24, "nunavut_pop", "denominator")>>,
            "combined_rate", "positive", Template("", 1, "%"), 1),
     Metric("leblanc_diversification",
            <<Vec("v87008955", 24, "total_exports", ""), Vec("v87008956", 24, "us_exports", "")>>,
            "share_pct", "positive", Template("", 1, "%"), 1),
     Metric("sidhu_diversification",
            <<Vec("v87008956", 24, "us_exports", ""), Vec("v87008955", 24, "total_exports", "")>>,
            "share_pct", "positive", Template("", 1, "%"), 1),
     Metric("valdez_wagegap",
            <<Vec("v1481409741", 10, "male_wage", ""), Vec("v1481409745", 10, "female_wage", "")>>,
            "wage_gap", "negative", Template("", 1, "%"), 1),
     Metric("wagegap_reversed",
            <<Vec("v1481409745", 10, "female_wage", ""), Vec("v1481409741", 10, "male_wage", "")>>,
            "wage_gap", "negative", Template("", 1, "%"), 1),
     Metric("composite_equal",
            <<Vec("v4", 20, "yukon", ""), Vec("v6", 20, "nwt", ""), Vec("v7", 20, "nunavut", "")>>,
            "composite_avg", "positive", Template("", 1, "%"), 1),
     [Metric("composite_weighted",
             <<Vec("v4", 20, "yukon", ""), Vec("v6", 20, "nwt", ""), Vec("v7", 20, "nunavut", "")>>,
             "composite_avg", "positive", Template("", 1, "%"), 1)
        EXCEPT !.has_population = TRUE,
               !.population_vectors = <<Vec("v46438711", 24, "yukon_pop", ""),
                                        Vec("v46438813", 24, "nwt_pop", ""),
                                        Vec("v99443810", 24, "nunavut_pop", "")>>]}

\* latest values, one per vector: every choice of three small values, and
\* the worked examples (wages in half dollars: 30.00 and 25.50)
WorkedLatest(n) ==
    [1..n -> {1, 2, 5}]
    \cup (IF n = 6 THEN {<<10, 5, 2, 50, 25, 10>>} ELSE {})
    \cup (IF n = 2 THEN {<<200, 150>>, <<150, 200>>, <<60, 51>>, <<51, 60>>} ELSE {})

\* year-ago values, one per vector
WorkedBack(n) ==
    {[k \in 1..n |-> 1], [k \in 1..n |-> IF k % 2 = 1 THEN 2 ELSE 1], [k \in 1..n |-> k]}

\* months between observations, one per vector: all monthly, the first
\* monthly and the others quarterly, the first quarterly and the others monthly
WorkedSteps(n) ==
    {[k \in 1..n |-> 1], [k \in 1..n |-> IF k = 1 THEN 1 ELSE 3],
     [k \in 1..n |-> IF k = 1 THEN 3 ELSE 1]}

\* the cache with a series of 13 observations for every vector of the metric
WorkedLookup(cfg, steps, latest, back) ==
    [id \in IdsOf(cfg) |->
        LET k == CHOOSE k \in 1..Len(VecsOf(cfg)) : VecsOf(cfg)[k].id = id
        IN Series(steps[k], 13, latest[k], back[k])]

InitWorked ==
    /\ script = "fetch_minister_data"
    /\ remote = [id \in BatchIds |-> <<>>]
    /\ \E cfg \in WorkedConfigs :
         /\ config = <<cfg>>
         /\ \E steps \in WorkedSteps(Len(VecsOf(cfg))),
               latest \in WorkedLatest(Len(VecsOf(cfg))),
               back \in WorkedBack(Len(VecsOf(cfg))) :
              fetched_data = WorkedLookup(cfg, steps, latest, back)
    /\ statcan_raw = None
    /\ all_vectors = UniqueVectors(config)
    /\ vi = Len(all_vectors) + 1
    /\ pc = "compute"
    /\ attempt = 0
    /\ outcomes = <<>>
    /\ log = <<>>
    /\ ret = None
    /\ calls = [id \in BatchIds |-> 0]
    /\ success = Cardinality(DOMAIN fetched_data)
    /\ fail = 0
    /\ mi = 1
    /\ results = <<>>
    /\ output = None
    /\ latest_csv = None
    /\ official_csv = None
    /\ site_data = <<>>
    /\ card = None
    /\ all_history = <<>>

NextWorked == ComputeMetric

SpecWorked == InitWorked /\ [][NextWorked]_vars

-----------------------------------------------------------------------------
(* build_site.py: reading official_data.csv *)

\* a float that may also be None
Num(x) == [tag |-> "float", v |-> x]

\* one entry of INDICATORS, as far as the reader and the cards use it
Indicator(key, unit, frequency) == [key |-> key, unit |-> unit, frequency |-> frequency]

\* a row of the file as csv.DictReader yields it; the value cell is a
\* numeric text (NumVal), the empty text (NullVal) or another text (StrVal)
Row(date, cell) == [date |-> date, value |-> cell]

\* "C$" in unit or "dollars" in unit.lower(), over the units in use
IsDollarUnit(unit) == unit \in {"C$ millions", "C$ (2017)"}

\* if row.get('value') and row['value'].strip(): rows.append(row)
NonBlankRows(items) == SelectSeq(items, LAMBDA row : row.value # NullVal)

\* float(rows[i]['value']) raises ValueError
FloatFails(rows, i) == Idx(rows, i).value = StrVal

\* float(rows[i]['value'])
FloatOf(rows, i) == FromInt(Idx(rows, i).value.n)

\* ((latest / earlier) - 1) * 100 if earlier != 0 else 0, None when the
\* rows do not reach back
GrowthFrom(rows, back) ==
    IF Len(rows) >= back
    THEN (IF ~RIsZero(FloatOf(rows, -back))
          THEN Num(PctChange(FloatOf(rows, -1), FloatOf(rows, -back)))
          ELSE Num(FromInt(0)))
    ELSE None

\* latest_value - float(rows[-back]['value']), None when the rows do not
\* reach back
DiffFrom(rows, back) ==
    IF Len(rows) >= back
    THEN Num(RSub(FloatOf(rows, -1), FloatOf(rows, -back)))
    ELSE None

RECURSIVE RPow(_, _)
RPow(x, k) == IF k = 0 THEN FromInt(1) ELSE RMul(x, RPow(x, k - 1))

\* ((1 + mom_growth/100)**12 - 1) * 100
Annualized(mom) ==
    Num(RMul(RSub(RPow(RAdd(FromInt(1), RDiv(mom.v, FromInt(100))), 12), FromInt(1)),
             FromInt(100)))

\* yoy_lookback = 260 if is_daily else 13
YoyLookback(frequency) == IF frequency = "Daily" THEN 260 ELSE 13

\* the period label of the latest row
DayLabel(date) == [kind |-> "day", y |-> date[1], n |-> date[2]]
NoLabel == [kind |-> "empty", y |-> 0, n |-> 0]

\* the dict read_official_data returns; a key the dict does not carry reads
\* as None, as data.get(key) does
OfficialData(date, period, value, secondary, absolute, yoy_growth, yoy_pp, yoy_mil) ==
    [tag |-> "ok", date |-> date, period |-> period, value |-> value,
     secondary |-> secondary, absolute |-> absolute, yoy_growth |-> yoy_growth,
     yoy_pp_change |-> yoy_pp, yoy_change_millions |-> yoy_mil]

\* the quarterly branch, lines 358-396
ReadQuarterly(indicator, rows) ==
    LET latest_value == Num(FloatOf(rows, -1))
        latest_date == Idx(rows, -1).date
        qoq_growth == GrowthFrom(rows, 2)
        yoy_growth == GrowthFrom(rows, 5)
    IN IF latest_date = <<>> THEN None
       ELSE IF Len(rows) >= 2 /\ FloatFails(rows, -2) THEN None
       ELSE IF Len(rows) >= 5 /\ FloatFails(rows, -5) THEN None
       ELSE IF IsDollarUnit(indicator.unit)
       THEN OfficialData(latest_date, QuarterLabel(latest_date), latest_value,
                         yoy_growth, latest_value, yoy_growth, None, None)
       ELSE OfficialData(latest_date, QuarterLabel(latest_date),
                         IF yoy_growth # None THEN yoy_growth ELSE qoq_growth,
                         qoq_growth, latest_value, None, None, None)

\* the monthly / daily branch, lines 397-465
ReadMonthlyOrDaily(indicator, rows) ==
    LET latest_value == Num(FloatOf(rows, -1))
        latest_date == Idx(rows, -1).date
        is_daily == indicator.frequency = "Daily"
        period == IF latest_date = <<>> THEN NoLabel
                  ELSE IF is_daily THEN DayLabel(latest_date)
                  ELSE MonthLabel(latest_date)
        yoy_lookback == YoyLookback(indicator.frequency)
        mom_growth == GrowthFrom(rows, 2)
        mom_annualized == IF mom_growth # None /\ ~is_daily
                          THEN Annualized(mom_growth) ELSE None
        yoy_growth == GrowthFrom(rows, yoy_lookback)
        yoy_pp_change == DiffFrom(rows, yoy_lookback)
    IN IF Len(rows) >= 2 /\ FloatFails(rows, -2) THEN None
       ELSE IF Len(rows) >= yoy_lookback /\ FloatFails(rows, -yoy_lookback) THEN None
       ELSE IF indicator.unit = "%"
       THEN OfficialData(latest_date, period, latest_value, yoy_pp_change,
                         latest_value, None, yoy_pp_change, None)
       ELSE IF indicator.unit = "C$ millions"
       THEN (IF Len(rows) >= 13 /\ FloatFails(rows, -13) THEN None
             ELSE OfficialData(latest_date, period, latest_value, DiffFrom(rows, 2),
                               latest_value, None, None, DiffFrom(rows, 13)))
       ELSE IF IsDollarUnit(indicator.unit)
       THEN OfficialData(latest_date, period, latest_value, yoy_growth,
                         latest_value, yoy_growth, None, None)
       ELSE OfficialData(latest_date, period, yoy_growth, mom_annualized,
                         latest_value, None, None, None)

\* file is None when official_data.csv does not exist; a ValueError of
\* float() or int() is caught at line 466 and None is returned
read_official_data(indicator, file) ==
    IF file = None THEN None
    ELSE LET rows == NonBlankRows(file.items)
         IN IF rows = <<>> THEN None
            ELSE IF FloatFails(rows, -1) THEN None
            ELSE IF indicator.frequency = "Quarterly" THEN ReadQuarterly(indicator, rows)
            ELSE ReadMonthlyOrDaily(indicator, rows)

-----------------------------------------------------------------------------
(* build_site.py: formatting and sentiment *)

\* the literal "N/A" and the empty string
NAText == [tag |-> "N/A"]
EmptyString == [tag |-> "empty"]

\* f"{pre}{x:.<dec>f}{suf}"; plus is the "+" flag of the format spec
Text(pre, x, dec, plus, suf) ==
    [tag |-> "text", pre |-> pre,
     sign |-> IF x[1] < 0 THEN "-" ELSE IF plus THEN "+" ELSE "",
     digits |-> RoundDigits(RAbs(x), dec), dec |-> dec, suf |-> suf]

\* mutant: a value of exactly 0 gets the down arrow
ArrowText_ZeroPointsDown(x, mid, dec, suf) ==
    [tag |-> "text", pre |-> IF x[1] > 0 THEN "up" ELSE "down", mid |-> mid, sign |-> "",
     digits |-> RoundDigits(RAbs(x), dec), dec |-> dec, suf |-> suf]

\* f"{arrow} {mid}{abs(x):.<dec>f}{suf}" with arrow up when x >= 0
ArrowText(x, mid, dec, suf) ==
    [tag |-> "text", pre |-> Arrow(x), mid |-> mid, sign |-> "",
     digits |-> RoundDigits(RAbs(x), dec), dec |-> dec, suf |-> suf]

\* x / n
Scaled(x, n) == RDiv(x, FromInt(n))

\* mutant: "if not val" also takes the value 0 for missing
format_value_FalsyIsMissing(val, unit, use_arrow) ==
    IF val = None THEN NAText
    ELSE IF RIsZero(val.v) THEN NAText
    ELSE Text("", val.v, 2, FALSE, "")

format_value(val, unit, use_arrow) ==
    IF val = None THEN NAText
    ELSE IF unit = "C$ millions" THEN Text("C$", Scaled(val.v, 1000), 1, FALSE, "B")
    ELSE IF IsDollarUnit(unit) THEN Text("$", val.v, 0, FALSE, "")
    ELSE IF unit = "%" THEN Text("", val.v, 1, FALSE, "%")
    ELSE IF unit \in {"% y/y", "% annualized", "pp"}
    THEN (IF use_arrow
          THEN (IF unit = "pp" THEN ArrowText(val.v, "", 1, " pp")
                ELSE ArrowText(val.v, "", 2, "%"))
          ELSE (IF unit = "% y/y" THEN Text("", val.v, 2, TRUE, "% year over year")
                ELSE IF unit = "% annualized" THEN Text("", val.v, 2, TRUE, "% annualized")
                ELSE Text("", val.v, 1, TRUE, " percentage points")))
    ELSE Text("", val.v, 2, FALSE, "")

format_absolute_value(val, indicator_key) ==
    IF val = None THEN NAText
    ELSE IF indicator_key = "gdp" THEN Text("$", Scaled(val.v, 1000000), 2, FALSE, "T")
    ELSE IF indicator_key = "gdp_percapita" THEN Text("$", val.v, 0, FALSE, "")
    ELSE IF indicator_key \in {"trade", "exports", "imports"}
    THEN Text("C$", Scaled(val.v, 1000), 1, FALSE, "B")
    ELSE IF indicator_key \in {"retail", "manufacturing"}
    THEN Text("C$", Scaled(val.v, 1000000), 1, FALSE, "B")
    ELSE IF indicator_key = "business_investment"
    THEN Text("C$", Scaled(val.v, 1000), 1, FALSE, "B")
    ELSE IF indicator_key = "population" THEN Text("", Scaled(val.v, 1000000), 2, FALSE, "M")
    ELSE IF indicator_key \in {"immigration", "emigration"}
    THEN Text("", Scaled(val.v, 1000), 1, FALSE, "K")
    ELSE IF indicator_key = "ei" THEN Text("", Scaled(val.v, 1000), 0, FALSE, "K")
    ELSE IF indicator_key = "wages" THEN Text("$", val.v, 0, FALSE, "")
    ELSE IF indicator_key = "hours_worked" THEN Text("", val.v, 1, FALSE, " hrs")
    ELSE IF indicator_key = "housing_starts" THEN Text("", val.v, 0, FALSE, "K")
    ELSE IF indicator_key \in {"inflation", "cpi_shelter", "cpi_food", "cpi_transport",
                               "housing"}
    THEN Text("", val.v, 1, FALSE, "")
    ELSE IF indicator_key \in {"unemployment", "employment_rate", "participation_rate",
                               "jobvacancy", "policy_rate", "bond_5y", "bond_10y"}
    THEN Text("", val.v, 1, FALSE, "%")
    ELSE Text("", val.v, 0, FALSE, "")

positive_growth_indicators ==
    {"gdp", "gdp_percapita", "employment_rate", "participation_rate", "wages",
     "housing_starts", "trade", "exports", "retail", "manufacturing",
     "business_investment"}

negative_growth_indicators ==
    {"unemployment", "ei", "inflation", "cpi_shelter", "cpi_food", "cpi_transport"}

neutral_indicators ==
    {"population", "immigration", "emigration", "policy_rate", "bond_5y", "bond_10y",
     "hours_worked", "jobvacancy", "housing", "imports"}

get_change_sentiment(indicator_key, change_value) ==
    IF change_value = None THEN "neutral"
    ELSE LET is_increase == change_value.v[1] > 0
         IN IF indicator_key \in positive_growth_indicators
            THEN (IF is_increase THEN "positive" ELSE "negative")
            ELSE IF indicator_key \in negative_growth_indicators
            THEN (IF is_increase THEN "negative" ELSE "positive")
            ELSE IF indicator_key \in neutral_indicators THEN "neutral"
            ELSE (IF is_increase THEN "positive" ELSE "negative")

\* detail_line = f"{growth_str} year over year"
DetailLine(growth_str) == [tag |-> "line", body |-> growth_str, tail |-> "year over year"]

\* the detail line and its colour when the comparison value is there, the
\* empty line and the empty colour when it is None
CardDetail(key, change, growth_str) ==
    IF change # None
    THEN [detail |-> DetailLine(growth_str), color |-> get_change_sentiment(key, change)]
    ELSE [detail |-> EmptyString, color |-> ""]

\* generate_home_page, lines 1282-1325: the growth display by unit
GrowthDisplay(ind, data) ==
    IF ind.unit = "%"
    THEN CardDetail(ind.key, data.yoy_pp_change,
                    IF data.yoy_pp_change # None
                    THEN ArrowText(data.yoy_pp_change.v, "", 1, " pp") ELSE EmptyString)
    ELSE IF ind.unit = "C$ millions"
    THEN CardDetail(ind.key, data.yoy_change_millions,
                    IF data.yoy_change_millions # None
                    THEN ArrowText(Scaled(data.yoy_change_millions.v, 1000), "C$", 1, "B")
                    ELSE EmptyString)
    ELSE IF IsDollarUnit(ind.unit)
    THEN CardDetail(ind.key, data.yoy_growth,
                    IF data.yoy_growth # None
                    THEN ArrowText(data.yoy_growth.v, "", 2, "%") ELSE EmptyString)
    ELSE CardDetail(ind.key, data.value, format_value(data.value, "% y/y", TRUE))

\* read_chart_history: a row without a date or a value is skipped, a row
\* whose value is not a number is skipped (ValueError caught per row)
read_chart_history(file) ==
    IF file = None THEN <<>>
    ELSE LET kept == SelectSeq(file.items,
                               LAMBDA row : /\ row.date # <<>>
                                            /\ row.value \notin {NullVal, StrVal})
         IN [i \in 1..Len(kept) |-> [date |-> kept[i].date, value |-> FromInt(kept[i].value.n)]]

\* the line build prints for an indicator: its formatted value, or NO DATA
Say(key, text) == [ev |-> "print", id |-> key, text |-> text]
NoDataText == [tag |-> "NO DATA"]

\* build, lines 2139-2147: one indicator of the read loop
ReadOfficial ==
    /\ pc = "read"
    /\ script = "build_site"
    /\ LET ind == config[mi]
           data == read_official_data(ind, official_csv)
       IN /\ site_data' = Put(site_data, ind.key, data)
          /\ all_history' = Put(all_history, ind.key, read_chart_history(official_csv))
          /\ log' = Append(log, Say(ind.key,
                                    IF data = None THEN NoDataText
                                    ELSE IF data.value = None THEN NoDataText
                                    ELSE format_value(data.value, ind.unit, FALSE)))
    /\ pc' = "render"
    /\ UNCHANGED <<script, remote, config, all_vectors, vi, attempt, outcomes,
                   ret, fetched_data, calls, success, fail, mi, results, output,
                   statcan_raw, latest_csv, official_csv, card>>

\* generate_home_page, lines 1269-1332: the summary card of one indicator;
\* an indicator without data or without a value gets no card
RenderCard ==
    /\ pc = "render"
    /\ script = "build_site"
    /\ LET ind == config[mi]
           data == IF ind.key \in DOMAIN site_data THEN site_data[ind.key] ELSE None
       IN card' = IF data = None THEN card
                  ELSE IF data.value = None THEN card
                  ELSE LET growth == GrowthDisplay(ind, data)
                       IN [tag |-> "card",
                           value |-> format_absolute_value(data.absolute, ind.key),
                           detail |-> growth.detail, color |-> growth.color,
                           period |-> data.period, frequency |-> ind.frequency]
    /\ pc' = "done"
    /\ UNCHANGED <<script, remote, config, all_vectors, vi, attempt, outcomes, log,
                   ret, fetched_data, calls, success, fail, mi, results, output,
                   statcan_raw, latest_csv, official_csv, site_data, all_history>>

-----------------------------------------------------------------------------
(* build_site.py on one indicator and one official_data.csv *)

\* indicators after INDICATORS and VECTOR_MAP: key, unit, frequency.  The
\* reader takes the unit and the frequency from the entry it is given; the
\* job vacancy rate stands for a rate that is declared Quarterly.
SiteIndicators ==
    {Indicator("unemployment", "%", "Monthly"),
     Indicator("jobvacancy", "%", "Quarterly"),
     Indicator("inflation", "% y/y", "Monthly"),
     Indicator("trade", "C$ millions", "Monthly"),
     Indicator("gdp", "% annualized", "Quarterly"),
     Indicator("population", "% y/y", "Quarterly"),
     Indicator("gdp_percapita", "C$ (2017)", "Quarterly"),
     Indicator("policy_rate", "%", "Daily")}

\* the date k days before 2025-01-01, on a calendar of 28-day months
DayBack(k) ==
    LET months == 2025 * 12 - 1 - ((k - 1) \div 28)
    IN IF k = 0 THEN <<2025, 1, 1>>
       ELSE <<months \div 12, (months % 12) + 1, 28 - ((k - 1) % 28)>>

RowDate(cadence, k) ==
    IF cadence = "D" THEN DayBack(k)
    ELSE IF cadence = "Q" THEN DateBack(3, k)
    ELSE DateBack(1, k)

\* the number of rows the reader's year-over-year lookback needs
RowLookback(cadence) ==
    IF cadence = "D" THEN 260 ELSE IF cadence = "Q" THEN 5 ELSE 13

\* n well-formed rows ending with `prev` and `latest`, with `lookback` one
\* year before the latest (if n reaches that far) and 1 elsewhere
CleanRows(cadence, n, latest, prev, lookback) ==
    [i \in 1..n |->
        Row(RowDate(cadence, n - i),
            NumVal(IF i = n THEN latest
                   ELSE IF i = n - 1 THEN prev
                   ELSE IF i = n - RowLookback(cadence) + 1 THEN lookback
                   ELSE 1))]

\* cadence and number of rows: below and at the lookback
FileShapes ==
    {<<"M", 1>>, <<"M", 12>>, <<"M", 13>>, <<"Q", 1>>, <<"Q", 2>>, <<"Q", 4>>, <<"Q", 5>>,
     <<"D", 259>>, <<"D", 260>>}

\* one row of the file made malformed: a non-numeric value, an empty value
\* or an empty date
Damaged(rows, p, defect) ==
    IF defect = "text" THEN [rows EXCEPT ![p] = Row(@.date, StrVal)]
    ELSE IF defect = "blank" THEN [rows EXCEPT ![p] = Row(@.date, NullVal)]
    ELSE [rows EXCEPT ![p] = Row(<<>>, @.value)]

\* the rows that may be damaged: the first, the one before the last, the last
DamagePositions(rows) == {1, Len(rows)} \cup (IF Len(rows) >= 2 THEN {Len(rows) - 1} ELSE {})

OfficialFiles ==
    LET clean == {CleanRows(sh[1], sh[2], latest, prev, lookback) :
                     sh \in FileShapes, latest \in 0..MaxVal, prev \in 0..MaxVal,
                     lookback \in 0..MaxVal}
    IN {None} \cup {List(<<>>)} \cup {List(rows) : rows \in clean}
       \cup UNION {{List(Damaged(rows, p, defect)) :
                       p \in DamagePositions(rows), defect \in {"text", "blank", "nodate"}} :
                   rows \in clean}

InitSite ==
    /\ script = "build_site"
    /\ remote = [id \in BatchIds |-> <<>>]
    /\ config \in {<<ind>> : ind \in SiteIndicators}
    /\ official_csv \in OfficialFiles
    /\ all_vectors = <<>>
    /\ vi = 1
    /\ pc = "read"
    /\ attempt = 0
    /\ outcomes = <<>>
    /\ log = <<>>
    /\ ret = None
    /\ fetched_data = <<>>
    /\ calls = [id \in BatchIds |-> 0]
    /\ success = 0
    /\ fail = 0
    /\ mi = 1
    /\ results = <<>>
    /\ output = None
    /\ statcan_raw = None
    /\ latest_csv = None
    /\ site_data = <<>>
    /\ card = None
    /\ all_history = <<>>

NextSite == ReadOfficial \/ RenderCard

SpecSite == InitSite /\ [][NextSite]_vars

-----------------------------------------------------------------------------
(* build_site.py: one call of format_value *)

\* the units format_value tells apart, one unit of each dollar kind and one
\* unit it knows nothing about
FormatCallUnits == {"%", "% y/y", "% annualized", "pp", "C$ millions", "C$ (2017)", "index"}

\* the values of a call: None and the quarters between -MaxVal and MaxVal
FormatCallValues == {None} \cup {Num(Rat(k, 4)) : k \in (-4 * MaxVal)..(4 * MaxVal)}

FormatCall(val, unit, use_arrow) == [val |-> val, unit |-> unit, use_arrow |-> use_arrow]

InitFormat ==
    /\ script = "build_site"
    /\ remote = [id \in BatchIds |-> <<>>]
    /\ \E val \in FormatCallValues, unit \in FormatCallUnits, use_arrow \in BOOLEAN :
         config = <<FormatCall(val, unit, use_arrow)>>
    /\ official_csv = None
    /\ all_vectors = <<>>
    /\ vi = 1
    /\ pc = "format"
    /\ attempt = 0
    /\ outcomes = <<>>
    /\ log = <<>>
    /\ ret = None
    /\ fetched_data = <<>>
    /\ calls = [id \in BatchIds |-> 0]
    /\ success = 0
    /\ fail = 0
    /\ mi = 1
    /\ results = <<>>
    /\ output = None
    /\ statcan_raw = None
    /\ latest_csv = None
    /\ site_data = <<>>
    /\ card = None
    /\ all_history = <<>>

\* format_value(val, unit, use_arrow): the returned text
FormatValue ==
    /\ pc = "format"
    /\ script = "build_site"
    /\ card' = format_value(config[mi].val, config[mi].unit, config[mi].use_arrow)
    /\ pc' = "done"
    /\ UNCHANGED <<script, remote, config, all_vectors, vi, attempt, outcomes, log,
                   ret, fetched_data, calls, success, fail, mi, results, output,
                   statcan_raw, latest_csv, official_csv, site_data, all_history>>

NextFormat == FormatValue

SpecFormat == InitFormat /\ [][NextFormat]_vars

-----------------------------------------------------------------------------
(* build_site.py: the card of a minister metric *)

\* MINISTER_FRESH_DATA, loaded from minister_latest.json when the module is
\* imported: the "metrics" of the document, {} when there is no document
MINISTER_FRESH_DATA(doc) == IF doc = None THEN <<>> ELSE doc.metrics

METRIC_TO_INDICATOR ==
    [pm_gdp_growth |-> "gdp", pm_gdp_percapita |-> "gdp_percapita",
     pm_unemployment |-> "unemployment", pm_wages |-> "wages", pm_cpi |-> "inflation",
     pm_retail |-> "retail", pm_employment |-> "employment_rate", pm_trade |-> "trade",
     joly_manufacturing |-> "manufacturing", chartrand_food |-> "cpi_food",
     robertson_starts |-> "housing_starts", robertson_affordability |-> "housing",
     sidhu_exports |-> "exports", macdonald_exports |-> "exports",
     diab_admissions |-> "immigration"]

\* INDICATORS.get(ind_key)
INDICATORS(ind_key) ==
    IF \E ind \in SiteIndicators : ind.key = ind_key
    THEN CHOOSE ind \in SiteIndicators : ind.key = ind_key
    ELSE None

\* the tuple (value_str, detail_line, growth_color, period_str)
CardTuple(value, detail, color, period) ==
    [value |-> value, detail |-> detail, color |-> color, period |-> period]

\* ("—", "", "neutral", "")
DashText == [tag |-> "dash"]
AbsentCard == CardTuple(DashText, EmptyString, "neutral", EmptyString)

\* (d["value"], d.get("detail", ""), d.get("detail_color", "neutral"), d.get("period", ""))
CardOfBlock(d) == CardTuple(d.value, d.detail, d.detail_color, d.period)

\* mutant: the hardcoded latest value is tried before the fresh data
_minister_card_display_LatestFirst(metric, all_data, fresh_data) ==
    IF metric.latest # None THEN CardOfBlock(metric.latest)
    ELSE IF metric.key \in DOMAIN fresh_data THEN CardOfBlock(fresh_data[metric.key])
    ELSE AbsentCard

\* _minister_card_display(metric, all_data), with the module's
\* MINISTER_FRESH_DATA as a third argument
_minister_card_display(metric, all_data, fresh_data) ==
    IF metric.key \in DOMAIN fresh_data THEN CardOfBlock(fresh_data[metric.key])
    ELSE IF metric.latest # None THEN CardOfBlock(metric.latest)
    ELSE IF metric.key \notin DOMAIN METRIC_TO_INDICATOR THEN AbsentCard
    ELSE LET ind_key == METRIC_TO_INDICATOR[metric.key]
             data == IF ind_key \in DOMAIN all_data THEN all_data[ind_key] ELSE None
             ind == INDICATORS(ind_key)
         IN IF data = None \/ ind = None THEN AbsentCard
            ELSE IF data.value = None THEN AbsentCard
            ELSE LET growth == GrowthDisplay(ind, data)
                 IN CardTuple(format_absolute_value(data.absolute, ind_key),
                              growth.detail, growth.color, data.period)

\* the metrics of MINISTERS the cards are drawn for: mapped to an indicator
\* of each unit, mapped to an indicator INDICATORS does not carry, unmapped
MinisterKeys ==
    {"pm_unemployment", "pm_cpi", "pm_trade", "pm_gdp_percapita", "pm_gdp_growth",
     "pm_wages", "valdez_wagegap"}

\* a "latest" block of ministers_config.py
HardcodedLatest ==
    Block(FormatWith(Template("", 1, "%"), FromInt(3)), NoComparison, YearLabel(<<2024, 1, 1>>))

\* the block fetch_minister_data wrote for a metric
FreshBlock ==
    Block(FormatWith(Template("", 1, "%"), FromInt(1)),
          format_detail(FromInt(-1), "pp", "negative"), MonthLabel(<<2025, 1, 1>>))

\* minister_latest.json: missing, without the metric, with the metric
MinisterDocuments(key) ==
    {None} \cup {[fetched_at |-> 1, count |-> Cardinality(DOMAIN metrics), metrics |-> metrics] :
                    metrics \in {<<>>, Put(<<>>, key, FreshBlock)}}

\* all_data after the read loop of build, for the indicator the metric maps
\* to: no entry, or what read_official_data returned for its file
MinisterSiteData(key) ==
    {<<>>} \cup
    (IF key \in DOMAIN METRIC_TO_INDICATOR /\ INDICATORS(METRIC_TO_INDICATOR[key]) # None
     THEN {Put(<<>>, METRIC_TO_INDICATOR[key],
               read_official_data(INDICATORS(METRIC_TO_INDICATOR[key]), file)) :
              file \in {None} \cup
                       {List(CleanRows(sh[1], sh[2], latest, 1, lookback)) :
                           sh \in FileShapes, latest \in 0..MaxVal, lookback \in 0..MaxVal}}
     ELSE {})

InitMinister ==
    /\ script = "build_site"
    /\ remote = [id \in BatchIds |-> <<>>]
    /\ \E key \in MinisterKeys :
         /\ config \in {<<[key |-> key, latest |-> latest]>> : latest \in {None, HardcodedLatest}}
         /\ output \in MinisterDocuments(key)
         /\ site_data \in MinisterSiteData(key)
    /\ official_csv = None
    /\ all_vectors = <<>>
    /\ vi = 1
    /\ pc = "minister"
    /\ attempt = 0
    /\ outcomes = <<>>
    /\ log = <<>>
    /\ ret = None
    /\ fetched_data = <<>>
    /\ calls = [id \in BatchIds |-> 0]
    /\ success = 0
    /\ fail = 0
    /\ mi = 1
    /\ results = <<>>
    /\ statcan_raw = None
    /\ latest_csv = None
    /\ card = None
    /\ all_history = <<>>

\* generate_ministers_page, line 1982: the card of one metric
MinisterCard ==
    /\ pc = "minister"
    /\ script = "build_site"
    /\ card' = _minister_card_display(config[mi], site_data, MINISTER_FRESH_DATA(output))
    /\ pc' = "done"
    /\ UNCHANGED <<script, remote, config, all_vectors, vi, attempt, outcomes, log,
                   ret, fetched_data, calls, success, fail, mi, results, output,
                   statcan_raw, latest_csv, official_csv, site_data, all_history>>

NextMinister == MinisterCard

SpecMinister == InitMinister /\ [][NextMinister]_vars

-----------------------------------------------------------------------------
(* The strategies, the growth calculator and the site reader together *)

InitDerive == InitCompute \/ InitSite

NextDerive == NextCompute \/ NextSite

SpecDerive == InitDerive /\ [][NextDerive]_vars

-----------------------------------------------------------------------------
(* The two places where observations come in: a fetch call and the site reader *)

InitIntake == InitFetch \/ InitSite

NextIntake == NextFetch \/ NextSite

SpecIntake == InitIntake /\ [][NextIntake]_vars

-----------------------------------------------------------------------------
(* Properties of a single fetch call (SpecFetch) *)

Failures == {"error", "http", "failed"}

Requests == {i \in 1..Len(log) : log[i].ev = "request"}
Sleeps == {i \in 1..Len(log) : log[i].ev = "sleep"}

Returned == pc = "fetched"

\* the received points that have both a date and a non-missing value
UsablePoints(points) ==
    {i \in 1..Len(points) : points[i].refPer # NoRef /\ points[i].value # NullVal}

Occurrences(s, x) == Cardinality({i \in 1..Len(s) : s[i] = x})

C2_TwoFailuresThenSuccess ==
    (/\ Returned
     /\ Len(outcomes) = 3
     /\ outcomes[1] \in Failures
     /\ outcomes[2] \in Failures
     /\ outcomes[3] = "ok"
     /\ UsablePoints(remote[CurrentId]) # {}) =>
        /\ ret # None
        /\ Len(ret.items) = Cardinality(UsablePoints(remote[CurrentId]))
        /\ Cardinality(Sleeps) = 2
        /\ \A i \in Sleeps : log[i] = Sleep(RetryDelay)
        /\ Last(log) = Req(CurrentId)

\* C2 witness: a non-200 status, then an exception, then a good answer.
C2_Witness ==
    /\ Returned
    /\ outcomes = <<"http", "error", "ok">>
    /\ ret # None
    /\ Len(log) = 5

\* C3: a fetch call issues at most 3 requests, ends after the third at the
\* latest, returns a Series or absent and never raises; every delay between
\* attempts is the same constant.
C3_BoundedConstantDelay ==
    /\ Cardinality(Requests) = Len(outcomes)
    /\ Cardinality(Requests) <= MaxAttempts
    /\ Len(outcomes) = MaxAttempts => Returned
    /\ pc \in {"fetch", "fetched"}
    /\ pc = "fetch" => ENABLED NextFetch
    /\ Returned => (ret = None \/ (ret.tag = "list" /\ ret.items # <<>>))
    /\ \A i \in Sleeps : log[i].secs = RetryDelay

\* C3 witness: the third request fails and the call still returns.
C3_Witness ==
    /\ Returned /\ ret = None
    /\ outcomes = <<"error", "error", "error">>
    /\ Cardinality(Requests) = 3

\* C6: a returned Series holds exactly the received observations that have a
\* date and a non-missing value, in ascending date order.
C6_KeptPointsSortedByDate ==
    (Returned /\ ret # None) =>
        LET points == remote[CurrentId]
            wanted == {Observation(points[i]) : i \in UsablePoints(points)}
            series == ret.items
        IN /\ Len(series) = Cardinality(UsablePoints(points))
           /\ \A o \in wanted :
                 Occurrences(series, o) =
                 Cardinality({i \in UsablePoints(points) : Observation(points[i]) = o})
           /\ \A i \in 1..Len(series) : series[i] \in wanted
           /\ \A i \in 1..(Len(series) - 1) :
                 ~DateLess(series[i + 1].date, series[i].date)

\* C6 witness: the service answers newest first, with one point lacking a
\* value; the Series returned has the other point only, or both in order.
C6_Witness ==
    /\ Returned /\ ret # None
    /\ Len(remote[CurrentId]) = 2
    /\ UsablePoints(remote[CurrentId]) = {1, 2}
    /\ DateLess(remote[CurrentId][2].refPer, remote[CurrentId][1].refPer)
    /\ ret.items[1].date = remote[CurrentId][2].refPer

-----------------------------------------------------------------------------
(* Properties of a batch run (Spec) *)

\* the request before position i of the log, 0 if there is none
PrevRequest(i) ==
    IF \E j \in Requests : j < i
    THEN CHOOSE j \in Requests : j < i /\ \A k \in Requests : k < i => k <= j
    ELSE 0

PacingSleeps == {i \in Sleeps : log[i].secs = PacingDelay}

\* the fetches the loop has completed
Completed == IF pc \in {"call", "fetch", "fetched"} THEN vi - 1 ELSE Len(all_vectors)

\* C4: between the last request for one series id and the first request for
\* the next id the 2-second pacing delay elapses, after a fetch that returned
\* data and after one that returned nothing alike; between two requests for
\* the same id only the 5-second retry delay elapses; and there is exactly
\* one pacing delay per completed fetch, none per retry.
C4_PacingBetweenDistinctSeries ==
    /\ \A i \in Requests :
         PrevRequest(i) # 0 =>
           IF log[PrevRequest(i)].id # log[i].id
           THEN /\ log[i - 1] = Sleep(PacingDelay)
                /\ Cardinality({k \in PacingSleeps : PrevRequest(i) < k /\ k < i}) = 1
           ELSE /\ i = PrevRequest(i) + 2
                /\ log[i - 1] = Sleep(RetryDelay)
    /\ Cardinality(PacingSleeps) = Completed
    /\ Completed = success + fail

\* a fetch that returned nothing after a retry, then the next id requested
C4_Witness ==
    /\ fail >= 1
    /\ success >= 1
    /\ \E i \in Requests :
         /\ PrevRequest(i) # 0
         /\ log[PrevRequest(i)].id # log[i].id
         /\ log[i - 2] = Sleep(RetryDelay)
    /\ \E i \in Requests : PrevRequest(i) # 0 /\ log[PrevRequest(i)].id = log[i].id

\* the metrics of the map that refer to a series id
Referring(id) == {m \in 1..Len(config) : id \in IdsOf(config[m])}

\* what one fetch call hands back for an id when the service answers
Delivered(id) == SortByDate(Collect(remote[id]))

\* C5: every series id is fetched by at most one call, and once the fetch
\* loop is over by exactly one, however many metrics refer to it; the
\* strategies all read the one lookup, which holds for an id the series
\* that call returned, so every written metric is its strategy's result
\* on that shared lookup.
C5_SharedSeriesFetchedOnce ==
    script = "fetch_minister_data" =>
      /\ \A id \in BatchIds : calls[id] <= 1
      /\ \A id \in DOMAIN fetched_data : fetched_data[id] = Delivered(id)
      /\ pc \in {"compute", "save", "done"} =>
           \A id \in BatchIds : Referring(id) # {} => calls[id] = 1
      /\ pc = "done" =>
           \A m \in 1..Len(config) :
             config[m].key \in DOMAIN output.metrics =>
               output.metrics[config[m].key] =
                 WithPeriodFormat(config[m], Compute(config[m], fetched_data))

\* the run is over, the id two metrics refer to was fetched once and both
\* metrics were written
C5_Witness ==
    /\ pc = "done"
    /\ script = "fetch_minister_data"
    /\ Cardinality(Referring("v87008956")) = 2
    /\ calls["v87008956"] = 1
    /\ {"leblanc_exports_us", "leblanc_diversification"} \subseteq DOMAIN output.metrics

\* the lookup cut down to the series a metric refers to
OwnInputs(cfg) ==
    [id \in DOMAIN fetched_data \cap IdsOf(cfg) |-> fetched_data[id]]

\* a metric whose strategy yields a result from its own series alone
Computable(cfg) ==
    /\ cfg.compute \in COMPUTE_FUNCTIONS
    /\ Compute(cfg, OwnInputs(cfg)) \notin {None, Raise}

\* C7: a run never stops before its end (every vector is fetched, every
\* metric is visited, the document is written), and at the end every metric
\* whose strategy yields a result from the metric's own series is in the
\* document with that result, whichever other fetches or metrics failed.
C7_FailuresStayLocal ==
    /\ pc # "crashed"
    /\ pc \in {"start", "call", "fetch", "fetched", "save"} => ENABLED Next
    /\ pc = "compute" => mi \in 1..Len(config)
    /\ pc = "done" => \A i \in 1..Len(all_vectors) : calls[all_vectors[i].id] >= 1
    /\ (pc = "done" /\ script = "fetch_minister_data") =>
         /\ output # None
         /\ \A m \in 1..Len(config) :
              Computable(config[m]) =>
                /\ config[m].key \in DOMAIN output.metrics
                /\ output.metrics[config[m].key] =
                     WithPeriodFormat(config[m], Compute(config[m], OwnInputs(config[m])))

\* the first series could not be fetched and the first metric is absent,
\* yet a later metric is in the document
C7_Witness ==
    /\ pc = "done"
    /\ script = "fetch_minister_data"
    /\ "v2062815" \notin DOMAIN fetched_data
    /\ "pm_unemployment" \notin DOMAIN output.metrics
    /\ "leblanc_exports_us" \in DOMAIN output.metrics

-----------------------------------------------------------------------------
(* Properties of the strategies and the growth calculator (SpecCompute) *)

TheMetric == config[1]

\* the strategy of the one metric has been applied
Computed == script = "fetch_minister_data" /\ pc \in {"save", "crashed"}

\* what the strategy returned
TheResult ==
    IF pc = "crashed" THEN Raise
    ELSE IF TheMetric.key \in DOMAIN results THEN results[TheMetric.key]
    ELSE None

\* a series the metric refers to is missing from the lookup or is empty
MissingInput == \E id \in IdsOf(TheMetric) : Falsy(fetched_data, id)

LatestOf(id) == Idx(fetched_data[id], -1).value

\* the denominator of the metric's value formula is zero: the total of
\* share_pct, the male wage of wage_gap, the weight total of composite_avg,
\* the denominator total of combined_rate
ZeroValueDenominator ==
    /\ ~MissingInput
    /\ CASE TheMetric.compute \in {"share_pct", "wage_gap"} -> LatestOf(SeriesA) = 0
         [] TheMetric.compute = "combined_rate" -> LatestOf(SeriesB) = 0
         [] TheMetric.compute = "composite_avg" ->
              TheMetric.has_population /\ LatestOf(SeriesB) = 0
         [] OTHER -> FALSE

\* the series whose year-ago observation the comparison uses (the weights of
\* composite_avg are not looked back)
LookbackIds == {TheMetric.vectors[i].id : i \in 1..Len(TheMetric.vectors)}

\* the reference series has the observations its cadence's year-over-year
\* lookback needs, and so has every other series of the comparison
LookbackReached ==
    /\ ~MissingInput
    /\ get_yoy_index(fetched_data[SeriesA]) # NoIndex
    /\ \A id \in LookbackIds :
         Len(fetched_data[id]) >= Abs(get_yoy_index(fetched_data[SeriesA]))

LookbackOf(id) == Idx(fetched_data[id], get_yoy_index(fetched_data[SeriesA])).value

\* the year-ago value the comparison divides by is zero
ZeroLookbackDenominator ==
    /\ LookbackReached
    /\ CASE TheMetric.compute \in {"level_yoy_pct", "count_yoy_pct", "share_pct", "wage_gap"} ->
              LookbackOf(SeriesA) = 0
         [] TheMetric.compute = "sum_yoy_pct" ->
              LookbackOf(SeriesA) + LookbackOf(SeriesB) = 0
         [] TheMetric.compute = "combined_rate" -> LookbackOf(SeriesB) = 0
         [] OTHER -> FALSE

\* C8: no strategy of the registry raises, and each returns absent whenever
\* a series it requires is missing from the lookup or has no observations,
\* or the denominator of its value formula is zero.
C8_AbsentOnMissingInputOrZeroDenominator ==
    Computed =>
      /\ TheResult # Raise
      /\ (MissingInput \/ ZeroValueDenominator) => TheResult = None

\* combined_rate with both series present and a zero denominator total
C8_Witness ==
    /\ Computed
    /\ TheMetric.compute = "combined_rate"
    /\ ~MissingInput
    /\ ZeroValueDenominator
    /\ TheResult = None

\* a comparison with the earlier value can be computed: the quarter-over-
\* quarter one from the previous observation (zero included, by the defined
\* fallback), the year-over-year one from a reached, non-zero lookback
ComparisonComputable ==
    IF TheMetric.compute = "level_qoq_pct" THEN TRUE
    ELSE LookbackReached /\ ~ZeroLookbackDenominator

LookbackExisted ==
    IF TheMetric.compute = "level_qoq_pct" THEN Len(fetched_data[SeriesA]) >= 2
    ELSE LookbackReached

\* C9 as claimed: in every returned result the detail is empty exactly when
\* no lookback comparison could be computed, an empty detail has the neutral
\* colour, and the colour is positive or negative only with a non-empty
\* detail and an existing lookback value.
C9_DetailAndSentimentJoint ==
    (Computed /\ TheResult \notin {None, Raise}) =>
      /\ (TheResult.detail = EmptyText) <=> ~ComparisonComputable
      /\ TheResult.detail = EmptyText => TheResult.detail_color = "neutral"
      /\ TheResult.detail_color \in {"positive", "negative"} =>
           (TheResult.detail # EmptyText /\ LookbackExisted)

\* the reference series has observations, but fewer than the year-over-year
\* lookback of its cadence
ShortHistory ==
    /\ ~MissingInput
    /\ get_yoy_index(fetched_data[SeriesA]) = NoIndex

\* the rows of the cached column are fewer than the calculator's lookback
ShortRows ==
    /\ statcan_raw # None
    /\ Len(statcan_raw.rows) >= 1
    /\ Len(statcan_raw.rows) < (IF TheMetric.quarterly THEN 5 ELSE 13)

\* C10 as claimed: with observations but fewer than the year-over-year
\* lookback, every strategy with a year-over-year comparison still returns
\* the latest value with an empty comparison, and the growth calculator
\* does not report the placeholder 0 as year-over-year growth.
C10_ShortHistoryOmitsComparisonOnly ==
    /\ (Computed /\ TheMetric.compute # "level_qoq_pct"
          /\ ShortHistory /\ ~ZeroValueDenominator) =>
         /\ TheResult \notin {None, Raise}
         /\ TheResult.detail = EmptyText
    /\ (script = "extract_official_data" /\ pc = "done" /\ ShortRows
          /\ latest_csv # None) =>
         latest_csv.yoy # FromInt(0)

\* the rows of the cached column reach the calculator's lookback and the
\* year-ago value is zero
ZeroYearAgoRow ==
    /\ statcan_raw # None
    /\ Len(statcan_raw.rows) >= (IF TheMetric.quarterly THEN 5 ELSE 13)
    /\ Idx(statcan_raw.rows, IF TheMetric.quarterly THEN -5 ELSE -13).value = 0

\* C11 as claimed: when the year-ago value (or the year-ago denominator of a
\* ratio) is zero, a strategy's result has the empty comparison, and the
\* growth calculator does not report a year-over-year growth of 0.
C11_ZeroLookbackGivesNoComparison ==
    /\ (Computed /\ ZeroLookbackDenominator /\ TheResult \notin {None, Raise}) =>
         TheResult.detail = EmptyText
    /\ (script = "extract_official_data" /\ pc = "done" /\ ZeroYearAgoRow
          /\ latest_csv # None) =>
         latest_csv.yoy # FromInt(0)

\* the sentiment table of the claim: c counts as an increase when c >= 0
TableSentiment(direction, c) ==
    IF direction = "neutral" THEN "neutral"
    ELSE IF direction = "positive" THEN (IF c >= 0 THEN "positive" ELSE "negative")
    ELSE (IF c >= 0 THEN "negative" ELSE "positive")

\* the change whose sign the detail of rate_yoy_pp (latest - year ago) and of
\* level_qoq_pct (latest against previous, 0 on a zero previous) shows
ShownChange ==
    IF TheMetric.compute = "rate_yoy_pp"
    THEN LatestOf(SeriesA) - LookbackOf(SeriesA)
    ELSE IF Idx(fetched_data[SeriesA], -2).value = 0 THEN 0
    ELSE LatestOf(SeriesA) - Idx(fetched_data[SeriesA], -2).value

\* C12 as claimed: the arrow is up exactly when the change is >= 0, and the
\* sentiment is the table's entry for (direction, change >= 0), so a change
\* of zero has the sentiment of an increase under every direction.
C12_SentimentFollowsTable ==
    (Computed /\ TheMetric.compute \in {"rate_yoy_pp", "level_qoq_pct"}
       /\ TheResult \notin {None, Raise}) =>
      /\ (TheResult.detail.arrow = "up") <=> (ShownChange >= 0)
      /\ TheResult.detail_color = TableSentiment(TheMetric.direction, ShownChange)

\* the series of the lookup
InputSeries == {fetched_data[id] : id \in DOMAIN fetched_data}

\* the kind of period label the thresholds of the claim give a gap
LabelForGap(g) == IF g > 300 THEN "year" ELSE IF g > 60 THEN "quarter" ELSE "month"

\* C13: for every series with at least 2 observations and gap g in days
\* between its last two dates, the cadence the code derives (the lookback
\* index it picks and the period label it writes) is Annual when g > 300,
\* Quarterly when 60 < g <= 300 and Monthly otherwise; gaps of 400, 90 and
\* 30 days are Annual, Quarterly and Monthly; a series with fewer than 2
\* observations is neither Annual nor Quarterly.
C13_CadenceFromLastGap ==
    /\ \A gd \in GapDates : \A data \in InputSeries :
         data = GapPair(gd) => DaysBetween(data[2].date, data[1].date) = gd[1]
    /\ \A data \in InputSeries :
         IF Len(data) >= 2
         THEN LET g == DaysBetween(data[Len(data)].date, data[Len(data) - 1].date)
              IN /\ is_annual(data) <=> g > 300
                 /\ (is_quarterly(data) /\ ~is_annual(data)) <=> (60 < g /\ g <= 300)
                 /\ PeriodOf(data).kind = LabelForGap(g)
                 /\ get_yoy_index(data) =
                      (IF g > 300 THEN -2
                       ELSE IF g > 60 THEN (IF Len(data) >= 5 THEN -5 ELSE NoIndex)
                       ELSE (IF Len(data) >= 13 THEN -13 ELSE NoIndex))
         ELSE ~is_annual(data) /\ ~is_quarterly(data) /\ get_yoy_index(data) = NoIndex
    /\ (Computed /\ TheMetric.compute = "rate_yoy_pp" /\ TheResult \notin {None, Raise}) =>
         TheResult.period.kind =
           LabelForGap(DaysBetween(Idx(fetched_data[SeriesA], -1).date,
                                   Idx(fetched_data[SeriesA], -2).date))

\* rate_yoy_pp has run on the pair 301 days apart and labelled it a year
C13_Witness ==
    /\ Computed
    /\ TheMetric.compute = "rate_yoy_pp"
    /\ SeriesA \in DOMAIN fetched_data
    /\ \E gd \in GapDates : gd[1] = 301 /\ fetched_data[SeriesA] = GapPair(gd)
    /\ TheResult \notin {None, Raise}
    /\ TheResult.period.kind = "year"

-----------------------------------------------------------------------------
(* Properties of the strategies and the site reader (SpecDerive) *)

\* the position from the end the claim fixes for a gap of g days
FixedBack(g) == IF g > 300 THEN 2 ELSE IF g > 60 THEN 5 ELSE 13

\* the rows of the file that have a value
KeptRows == NonBlankRows(official_csv.items)

\* the file is there and every row with a value is well-formed
WellFormedFile ==
    /\ official_csv # None
    /\ KeptRows # <<>>
    /\ \A i \in 1..Len(KeptRows) :
         KeptRows[i].value \notin {StrVal, NullVal} /\ KeptRows[i].date # <<>>

TheIndicator == config[1]

\* build_site has read the indicator's file
SiteRead == script = "build_site" /\ pc \in {"render", "done"}

SiteData == site_data[TheIndicator.key]

\* the value of the kept row at position `back` from the end
RowBack(back) == KeptRows[Len(KeptRows) - back + 1].value.n

\* C14: the year-over-year comparison of a single-series strategy reads the
\* observation at the 2nd, 5th or 13th position from the end for an annual,
\* quarterly or monthly series; the site reader reads the 5th (Quarterly),
\* 13th (Monthly) or 260th (Daily) row from the end; and for a monthly
\* indicator with at least 13 rows and a non-zero 13th-from-end value the
\* year-over-year percentage is (latest / rows[-13] - 1) * 100.
C14_LookbackAtFixedPosition ==
    /\ (Computed /\ TheMetric.compute \in {"rate_yoy_pp", "level_yoy_pct", "count_yoy_pct"}
          /\ TheResult \notin {None, Raise}) =>
         LET data == fetched_data[SeriesA]
             g == DaysBetween(data[Len(data)].date, data[Len(data) - 1].date)
             old == data[Len(data) - FixedBack(g) + 1].value
             new == data[Len(data)].value
         IN /\ Len(data) >= FixedBack(g)
            /\ IF TheMetric.compute = "rate_yoy_pp"
               THEN TheResult.detail = DetailText(FromInt(new - old), "pp", "year over year")
               ELSE old # 0 =>
                      TheResult.detail =
                        DetailText(PctChange(FromInt(new), FromInt(old)), "%", "year over year")
    /\ (SiteRead /\ WellFormedFile) =>
         /\ SiteData # None
         /\ (TheIndicator.frequency = "Quarterly" /\ IsDollarUnit(TheIndicator.unit)
               /\ Len(KeptRows) >= 5 /\ RowBack(5) # 0) =>
              SiteData.yoy_growth = Num(PctChange(FromInt(RowBack(1)), FromInt(RowBack(5))))
         /\ (TheIndicator.frequency = "Monthly" /\ TheIndicator.unit = "% y/y"
               /\ Len(KeptRows) >= 13 /\ RowBack(13) # 0) =>
              SiteData.value = Num(PctChange(FromInt(RowBack(1)), FromInt(RowBack(13))))
         /\ (TheIndicator.frequency = "Monthly" /\ TheIndicator.unit = "%"
               /\ Len(KeptRows) >= 13) =>
              SiteData.yoy_pp_change = Num(FromInt(RowBack(1) - RowBack(13)))
         /\ (TheIndicator.frequency = "Daily" /\ TheIndicator.unit = "%"
               /\ Len(KeptRows) >= 260) =>
              SiteData.yoy_pp_change = Num(FromInt(RowBack(1) - RowBack(260)))

\* a monthly growth indicator read from 13 rows whose 13th-from-end value
\* differs from the rows between
C14_Witness ==
    /\ SiteRead
    /\ WellFormedFile
    /\ TheIndicator.frequency = "Monthly"
    /\ TheIndicator.unit = "% y/y"
    /\ Len(KeptRows) = 13
    /\ RowBack(13) = 2
    /\ RowBack(1) = 1
    /\ SiteData.value = Num(FromInt(-50))

\* the units format_value tells apart; "index" stands for any other unit
FormatUnits == {"%", "% y/y", "% annualized", "pp", "C$ millions", "C$ (2017)", "index"}

\* one key of each branch of format_absolute_value; "other" takes the default
FormatKeys ==
    {"gdp", "gdp_percapita", "trade", "retail", "business_investment", "population",
     "immigration", "ei", "wages", "hours_worked", "housing_starts", "inflation",
     "unemployment", "other"}

\* the values the reader hands to the formatters, and the absent value
SiteValues ==
    {None} \cup
    (IF SiteData = None THEN {}
     ELSE {SiteData.value, SiteData.secondary, SiteData.absolute, SiteData.yoy_growth,
           SiteData.yoy_pp_change, SiteData.yoy_change_millions})

\* a formatted number: a text that carries the digits of a number
IsNumberText(t) == t.tag = "text" /\ t.digits \in Nat

\* C15: for every unit and flag, and for every indicator key, formatting
\* None gives "N/A"; formatting a number, 0 included, gives a text with
\* digits, never "N/A" and never the empty string.
C15_AbsentIsNAZeroIsNot ==
    SiteRead =>
      /\ \A val \in SiteValues, unit \in FormatUnits, use_arrow \in BOOLEAN :
           LET t == format_value(val, unit, use_arrow)
           IN IF val = None THEN t = NAText ELSE IsNumberText(t)
      /\ \A val \in SiteValues, key \in FormatKeys :
           LET t == format_absolute_value(val, key)
           IN IF val = None THEN t = NAText ELSE IsNumberText(t)
      /\ (pc = "done" /\ card # None) => IsNumberText(card.value)
      /\ \A i \in 1..Len(log) :
           (SiteData # None /\ SiteData.value # None) => IsNumberText(log[i].text)

\* an unemployment rate of 0 is printed and shown on the card as a number
C15_Witness ==
    /\ SiteRead
    /\ pc = "done"
    /\ TheIndicator.key = "unemployment"
    /\ SiteData # None
    /\ SiteData.value = Num(FromInt(0))
    /\ log[1].text = Text("", FromInt(0), 1, FALSE, "%")
    /\ card # None
    /\ card.value = Text("", FromInt(0), 1, FALSE, "%")
    /\ format_value(SiteData.yoy_growth, "% y/y", TRUE) = NAText

\* the rows reach the year-over-year lookback of the indicator's frequency
ReachesLookback ==
    Len(KeptRows) >= (IF TheIndicator.frequency = "Quarterly" THEN 5
                      ELSE YoyLookback(TheIndicator.frequency))

\* the row one year before the latest, by the indicator's frequency
YearAgoRow ==
    RowBack(IF TheIndicator.frequency = "Quarterly" THEN 5
            ELSE YoyLookback(TheIndicator.frequency))

Extracted ==
    /\ script = "extract_official_data"
    /\ pc = "done"
    /\ statcan_raw # None
    /\ latest_csv # None

\* C17: period-over-period growth is (latest / previous - 1) * 100 when
\* there are at least 2 observations and the previous one is not 0; with
\* fewer than 2 observations or a previous value of 0 it is not computed:
\* the growth calculator does not write 0, the site reader returns None for
\* it, and compute_level_qoq_pct gives no quarter-over-quarter detail.
C17_PeriodGrowthDefinedOrAbsent ==
    /\ Extracted =>
         LET rows == statcan_raw.rows
         IN IF Len(rows) >= 2 /\ Idx(rows, -2).value # 0
            THEN latest_csv.short = PctChange(Val(Idx(rows, -1)), Val(Idx(rows, -2)))
            ELSE latest_csv.short # FromInt(0)
    /\ (SiteRead /\ WellFormedFile /\ ~IsDollarUnit(TheIndicator.unit)
          /\ TheIndicator.frequency = "Quarterly") =>
         /\ SiteData # None
         /\ SiteData.secondary =
              IF Len(KeptRows) >= 2 /\ RowBack(2) # 0
              THEN Num(PctChange(FromInt(RowBack(1)), FromInt(RowBack(2))))
              ELSE None
    /\ (SiteRead /\ WellFormedFile /\ TheIndicator.unit = "% y/y"
          /\ TheIndicator.frequency = "Monthly") =>
         /\ SiteData # None
         /\ SiteData.secondary =
              IF Len(KeptRows) >= 2 /\ RowBack(2) # 0
              THEN Annualized(Num(PctChange(FromInt(RowBack(1)), FromInt(RowBack(2)))))
              ELSE None
    /\ (Computed /\ TheMetric.compute = "level_qoq_pct" /\ TheResult \notin {None, Raise}) =>
         LET data == fetched_data[SeriesA]
         IN /\ Len(data) >= 2
            /\ TheResult.detail =
                 IF data[Len(data) - 1].value # 0
                 THEN DetailText(PctChange(Val(Idx(data, -1)), Val(Idx(data, -2))), "%",
                                 "quarter over quarter")
                 ELSE EmptyText

-----------------------------------------------------------------------------
(* Properties of a fetch call and of the site reader (SpecIntake) *)

\* the rows of a file that have a date and a numeric value
GoodRows(items) ==
    SelectSeq(items, LAMBDA row : row.date # <<>> /\ row.value \notin {NullVal, StrVal})

\* the received points that have a date and a numeric value
GoodPoints(points) ==
    SelectSeq(points, LAMBDA p : p.refPer # NoRef /\ p.value \notin {NullVal, StrVal})

\* the Series of the well-formed points, absent when there is none
SeriesOfGood(points) ==
    IF GoodPoints(points) = <<>> THEN None
    ELSE List(SortByDate(Collect(GoodPoints(points))))

\* the file with its malformed rows taken out
WithoutMalformed ==
    IF official_csv = None THEN None ELSE List(GoodRows(official_csv.items))

\* C18: a malformed row or observation is dropped on its own.  What the
\* site reader returns for a file is what it returns for the file without
\* its malformed rows, and so is the chart history; a good answer of the
\* service gives the Series of its well-formed observations, in
\* fetch_indicator_data and in fetch_vector.
C18_MalformedRowDroppedAlone ==
    /\ SiteRead =>
         /\ SiteData = read_official_data(TheIndicator, WithoutMalformed)
         /\ all_history[TheIndicator.key] = read_chart_history(WithoutMalformed)
    /\ (script = "fetch_official_data" /\ Returned /\ Last(outcomes) = "ok") =>
         ret = SeriesOfGood(remote[CurrentId])
    /\ (script = "fetch_minister_data" /\ pc = "fetch") =>
         ENABLED (Attempt /\ pc' = "fetched" /\ ret' = SeriesOfGood(remote[CurrentId]))

-----------------------------------------------------------------------------
(* Properties of the fetched-series cache in a batch run (Spec) *)

\* the compute loop of fetch_minister_data has been entered
StrategiesPhase ==
    script = "fetch_minister_data" /\ pc \in {"compute", "save", "done", "crashed"}

\* the fetch loop has gone through every vector, and the cache holds what
\* the fetches returned and nothing else
CacheBuilt ==
    /\ vi = Len(all_vectors) + 1
    /\ \A i \in 1..Len(all_vectors) : calls[all_vectors[i].id] = 1
    /\ DOMAIN fetched_data \subseteq {all_vectors[i].id : i \in 1..Len(all_vectors)}
    /\ Cardinality(DOMAIN fetched_data) = success
    /\ success + fail = Len(all_vectors)

\* C19: the cache is completely built before the first strategy runs (no
\* metric is computed while the fetch loop is running), and from then on no
\* step of the run, a strategy included, changes the cache or a Series in it.
C19_CacheFrozenBeforeStrategies ==
    /\ [](StrategiesPhase => CacheBuilt)
    /\ []((script = "fetch_minister_data" /\ ~StrategiesPhase) => (results = <<>> /\ mi = 1))
    /\ [][StrategiesPhase => fetched_data' = fetched_data]_vars

\* every metric has been computed from a cache that holds some series but
\* not all of them
C19_Witness ==
    /\ script = "fetch_minister_data"
    /\ pc = "done"
    /\ mi = Len(config) + 1
    /\ results # <<>>
    /\ fetched_data # <<>>
    /\ fail > 0

\* the metrics of another run of the compute loop over the same MetricSpecs
\* and the same fetched series: the first n metrics, in order
RECURSIVE Rerun(_, _, _)
Rerun(cfgs, data, n) ==
    IF n = 0 THEN <<>>
    ELSE LET before == Rerun(cfgs, data, n - 1)
             cfg == cfgs[n]
             latest == IF cfg.compute \in COMPUTE_FUNCTIONS THEN Compute(cfg, data) ELSE None
         IN IF latest \notin {None, Raise}
            THEN Put(before, cfg.key, WithPeriodFormat(cfg, latest))
            ELSE before

-----------------------------------------------------------------------------
(* The strategies over several series (SpecWorked) *)

\* the sum of the observations at Python index i of the cached series of
\* the vectors
RECURSIVE TotalAt(_, _)
TotalAt(vecs, i) ==
    IF vecs = <<>> THEN 0
    ELSE Idx(fetched_data[Head(vecs).id], i).value + TotalAt(Tail(vecs), i)

\* the vectors of the metric with the role
RoleVecs(role) == SelectSeq(TheMetric.vectors, LAMBDA v : v.role = role)

\* the lookback index of the metric's reference series: its first
\* numerator for combined_rate, its first vector otherwise
ReferenceBack ==
    LET ref == IF TheMetric.compute = "combined_rate"
               THEN RoleVecs("numerator")[1] ELSE TheMetric.vectors[1]
    IN get_yoy_index(fetched_data[ref.id])

\* the text of a change in percentage points against a year ago
PointsText(change) ==
    [arrow |-> IF change[1] >= 0 THEN "up" ELSE "down",
     digits |-> RoundDigits(RAbs(change), 1), unit |-> "pp", span |-> "year over year"]

\* C21: combined_rate yields the sum of the latest numerator values over the
\* sum of the latest denominator values, times 100 (numerators 10, 5, 2 over
\* denominators 50, 25, 10 give 20.0); its detail is the difference in
\* percentage points between that ratio and the same ratio of the sums of
\* the lookback observations.
C21_CombinedRateIsRatioOfSums ==
    (Computed /\ TheMetric.compute = "combined_rate") =>
      LET num == RoleVecs("numerator")
          den == RoleVecs("denominator")
          rate == Rat(100 * TotalAt(num, -1), TotalAt(den, -1))
          prev_rate == Rat(100 * TotalAt(num, ReferenceBack), TotalAt(den, ReferenceBack))
      IN /\ TheResult \notin {None, Raise}
         /\ TheResult.value.digits = RoundDigits(rate, 1)
         /\ ~TheResult.value.neg
         /\ TheResult.detail = PointsText(RSub(rate, prev_rate))
         /\ (<<TotalAt(num, -1), TotalAt(den, -1)>> = <<17, 85>>
               => TheResult.value.digits = 200)

\* the worked example, with a year-over-year change
C21_Witness ==
    /\ Computed
    /\ TheMetric.compute = "combined_rate"
    /\ TheResult \notin {None, Raise}
    /\ LET num == RoleVecs("numerator")
           den == RoleVecs("denominator")
       IN /\ [k \in 1..3 |-> LatestOf(num[k].id)] = <<10, 5, 2>>
          /\ [k \in 1..3 |-> LatestOf(den[k].id)] = <<50, 25, 10>>
          /\ TheResult.value.digits = 200
          /\ TheResult.detail.digits > 0

\* the latest value of the metric's vector with the label
LatestOfLabel(label) ==
    LET v == CHOOSE v \in {TheMetric.vectors[k] : k \in 1..Len(TheMetric.vectors)} :
                 v.label = label
    IN LatestOf(v.id)

\* (a - b) / a * 100 to one decimal: the sign and the digits
ShareText(a, b) ==
    [neg |-> a < b, digits |-> RoundDigits(RAbs(Rat(100 * (a - b), a)), 1)]

\* C22: share_pct yields (total - us) / total * 100 and wage_gap yields
\* (male - female) / male * 100 of the latest values (total 200 and us 150
\* give 25.0; male 30.00 and female 25.50 give 15.0), the pair being the
\* vectors that carry the labels, in whichever order the metric lists them.
C22_ShareAndGapOfLabelledPair ==
    (Computed /\ TheMetric.compute \in {"share_pct", "wage_gap"}) =>
      LET a == LatestOfLabel(IF TheMetric.compute = "share_pct"
                             THEN "total_exports" ELSE "male_wage")
          b == LatestOfLabel(IF TheMetric.compute = "share_pct"
                             THEN "us_exports" ELSE "female_wage")
      IN /\ TheResult \notin {None, Raise}
         /\ [neg |-> TheResult.value.neg, digits |-> TheResult.value.digits]
              = ShareText(a, b)
         /\ (<<a, b>> = <<200, 150>> => TheResult.value.digits = 250)
         /\ (<<a, b>> = <<60, 51>> => TheResult.value.digits = 150)

\* the wage example (in half dollars) on the metric that lists the female
\* wage first
C22_Witness ==
    /\ Computed
    /\ TheMetric.compute = "wage_gap"
    /\ TheMetric.vectors[1].label = "female_wage"
    /\ LatestOfLabel("male_wage") = 60
    /\ LatestOfLabel("female_wage") = 51
    /\ TheResult \notin {None, Raise}
    /\ TheResult.value.digits = 150
    /\ ~TheResult.value.neg

-----------------------------------------------------------------------------
(* The formatter (SpecFormat) *)

\* the call and what it returned
TheCall == config[1]
Formatted == script = "build_site" /\ pc = "done" /\ card # None /\ "unit" \in DOMAIN TheCall

\* the units of a change, as opposed to a level or an amount
ChangeUnits == {"% y/y", "% annualized", "pp"}

\* the text is an arrow, up for x >= 0, followed by the absolute value
ArrowAndMagnitude(text, x) ==
    /\ text.tag = "text"
    /\ text.pre = (IF x[1] >= 0 THEN "up" ELSE "down")
    /\ text.sign = ""
    /\ text.digits = RoundDigits(RAbs(x), text.dec)

\* C23 as stated: format(0, "%", use_arrow=True) is an up arrow with "0.0%",
\* and with use_arrow set the text is always the arrow of the value's sign
\* followed by the absolute value.
C23_ArrowWheneverAsked ==
    (Formatted /\ TheCall.use_arrow /\ TheCall.val # None) =>
      /\ ArrowAndMagnitude(card, TheCall.val.v)
      /\ ((TheCall.unit = "%" /\ RIsZero(TheCall.val.v)) =>
            (card.digits = 0 /\ card.dec = 1 /\ card.suf = "%"))

\* C23: format(0, "% y/y", use_arrow=True) is an up arrow with "0.00%"
\* (format(0, "%", use_arrow=True) is "0.0%" without an arrow, "%" being the
\* unit of a level); with use_arrow set and the unit of a change ("% y/y",
\* "% annualized", "pp") the text is an up arrow exactly when the value is
\* >= 0 and a down arrow otherwise, followed by the absolute value.
C23_ArrowForChangeUnits ==
    (Formatted /\ TheCall.use_arrow /\ TheCall.val # None) =>
      /\ (TheCall.unit \in ChangeUnits => ArrowAndMagnitude(card, TheCall.val.v))
      /\ ((TheCall.unit = "% y/y" /\ RIsZero(TheCall.val.v)) =>
            (card.pre = "up" /\ card.digits = 0 /\ card.dec = 2 /\ card.suf = "%"))
      /\ ((TheCall.unit = "%" /\ RIsZero(TheCall.val.v)) =>
            card = [tag |-> "text", pre |-> "", sign |-> "", digits |-> 0,
                    dec |-> 1, suf |-> "%"])

\* a change of exactly 0 formatted with the arrow
C23_Witness ==
    /\ Formatted
    /\ TheCall = FormatCall(Num(FromInt(0)), "% y/y", TRUE)
    /\ card.pre = "up"
    /\ card.digits = 0

\* the latest values of the metric's value series, and the weight of each:
\* the latest value of the population vector at the same position, or 1
LatestValues == [k \in 1..Len(TheMetric.vectors) |-> LatestOf(TheMetric.vectors[k].id)]
WeightsUsed ==
    [k \in 1..Len(TheMetric.vectors) |->
        IF TheMetric.has_population THEN LatestOf(TheMetric.population_vectors[k].id) ELSE 1]

RECURSIVE SumTo(_, _)
SumTo(f, n) == IF n = 0 THEN 0 ELSE f[n] + SumTo(f, n - 1)

\* sum(v_i * w_i) / sum(w_i), for weights of a positive total
WeightedMean(values, weights) ==
    Rat(SumTo([k \in 1..Len(values) |-> values[k] * weights[k]], Len(values)),
        SumTo(weights, Len(weights)))

\* C24: composite_avg yields sum(v_i * w_i) / sum(w_i) over the latest
\* values v_i of its value series, w_i being the latest value of the i-th
\* population vector when population vectors are configured and 1
\* otherwise, in which case the result is the arithmetic mean.
C24_CompositeIsWeightedMean ==
    (Computed /\ TheMetric.compute = "composite_avg") =>
      /\ TheResult \notin {None, Raise}
      /\ ~TheResult.value.neg
      /\ TheResult.value.digits = RoundDigits(WeightedMean(LatestValues, WeightsUsed), 1)
      /\ (~TheMetric.has_population =>
            TheResult.value.digits
              = RoundDigits(Rat(SumTo(LatestValues, Len(LatestValues)), Len(LatestValues)), 1))

\* values 1, 2, 5 under the weights 5, 2, 1: 14 / 8 = 1.75, shown as 1.8,
\* where the arithmetic mean is 2.7
C24_Witness ==
    /\ Computed
    /\ TheMetric.compute = "composite_avg"
    /\ TheMetric.has_population
    /\ LatestValues = <<1, 2, 5>>
    /\ WeightsUsed = <<5, 2, 1>>
    /\ TheResult \notin {None, Raise}
    /\ TheResult.value.digits = 18

\* the observation one year back of every value series, each read at the
\* lookback index of that series itself
OwnLookbackValues ==
    [k \in 1..Len(TheMetric.vectors) |->
        LET data == fetched_data[TheMetric.vectors[k].id]
        IN Idx(data, get_yoy_index(data)).value]

\* the value series do not all have the cadence of the first
MixedCadence ==
    \E k \in 1..Len(TheMetric.vectors) :
        get_yoy_index(fetched_data[TheMetric.vectors[k].id]) # ReferenceBack

\* C25: the detail of composite_avg is the change in percentage points of
\* the weighted average against the weighted average of the lookback
\* observations, each series' lookback observation being the one at that
\* series' own lookback index.
C25_CompositeLookbackPerSeries ==
    (Computed /\ TheMetric.compute = "composite_avg") =>
      /\ TheResult \notin {None, Raise}
      /\ TheResult.detail
           = PointsText(RSub(WeightedMean(LatestValues, WeightsUsed),
                             WeightedMean(OwnLookbackValues, WeightsUsed)))

-----------------------------------------------------------------------------
(* The card of a minister metric (SpecMinister) *)

TheMinisterMetric == config[1]

\* the card of the metric has been made
MinisterRendered ==
    script = "build_site" /\ pc = "done" /\ "latest" \in DOMAIN TheMinisterMetric

\* the fetched document carries the metric
FreshYields == output # None /\ TheMinisterMetric.key \in DOMAIN output.metrics

\* the metric carries a hardcoded latest value
LatestYields == TheMinisterMetric.latest # None

\* the data read for the indicator the metric is mapped to, or None
MappedData ==
    IF TheMinisterMetric.key \notin DOMAIN METRIC_TO_INDICATOR THEN None
    ELSE IF METRIC_TO_INDICATOR[TheMinisterMetric.key] \notin DOMAIN site_data THEN None
    ELSE site_data[METRIC_TO_INDICATOR[TheMinisterMetric.key]]

\* the mapped indicator is known and a value was read for it
LocalYields ==
    /\ MappedData # None
    /\ MappedData.value # None
    /\ \E ind \in SiteIndicators : ind.key = METRIC_TO_INDICATOR[TheMinisterMetric.key]

\* C26: the card of a minister metric is the fetched block when the fetched
\* document carries the metric; else the hardcoded latest block when the
\* metric has one; else the display computed from the data of the mapped
\* indicator when there is such data; else the absent placeholder.  A card
\* is always returned.
C26_FirstSourceThatYields ==
    MinisterRendered =>
      /\ card # None
      /\ (FreshYields => card = CardOfBlock(output.metrics[TheMinisterMetric.key]))
      /\ ((~FreshYields /\ LatestYields) => card = CardOfBlock(TheMinisterMetric.latest))
      /\ ((~FreshYields /\ ~LatestYields /\ LocalYields) =>
            /\ card # AbsentCard
            /\ card.value = format_absolute_value(MappedData.absolute,
                                                  METRIC_TO_INDICATOR[TheMinisterMetric.key])
            /\ card.period = MappedData.period)
      /\ ((~FreshYields /\ ~LatestYields /\ ~LocalYields) => card = AbsentCard)

\* every source yields and the fetched block is shown
C26_Witness ==
    /\ MinisterRendered
    /\ FreshYields
    /\ LatestYields
    /\ LocalYields
    /\ card = CardOfBlock(FreshBlock)
    /\ card # CardOfBlock(HardcodedLatest)

-----------------------------------------------------------------------------
(* The dates of a fetched series (SpecFetch) *)

\* every observation is dated after the one before it
StrictlyIncreasing(series) ==
    \A i \in 1..(Len(series) - 1) : DateLess(series[i].date, series[i + 1].date)

\* C27: every Series a fetch returns, and with it every Series main puts
\* into the cache, is strictly increasing by date: no two of its
\* observations carry the same date, whatever the service answered.
C27_SeriesStrictlyIncreasing ==
    /\ \A id \in DOMAIN fetched_data : StrictlyIncreasing(fetched_data[id])
    /\ ((Returned /\ ret # None) => StrictlyIncreasing(ret.items))

-----------------------------------------------------------------------------
(* The lookback reads of the strategies (SpecCompute) *)

\* the result carries a comparison, so the strategy has read the earlier
\* observation of every series of LookbackIds
ComparisonMade == TheResult \notin {None, Raise} /\ TheResult.detail # EmptyText

\* the number of observations the strategy's earlier read needs: 2 for the
\* quarter-over-quarter read, else what the reference series' index asks
ReadDepth ==
    IF TheMetric.compute = "level_qoq_pct" THEN 2
    ELSE Abs(get_yoy_index(fetched_data[SeriesA]))

\* C28: no strategy reads an observation outside a series' bounds (no
\* IndexError leaves a strategy), and whenever a strategy has read the
\* earlier observation of its series, each of them, the secondary ones read
\* with the reference series' index included, has at least as many
\* observations as that index requires.
C28_LookbackReadsInBounds ==
    Computed =>
      /\ TheResult # Raise
      /\ ComparisonMade =>
           \A id \in LookbackIds :
               /\ id \in DOMAIN fetched_data
               /\ ReadDepth >= 1
               /\ Len(fetched_data[id]) >= ReadDepth

\* the reference series is monthly with 13 observations, the secondary one
\* quarterly with fewer than 13: the index -13 is not applied to it and the
\* result comes without a comparison
C28_Witness ==
    /\ Computed
    /\ TheMetric.compute \in {"composite_avg", "sum_yoy_pct", "combined_rate"}
    /\ ~MissingInput
    /\ SeriesB \in LookbackIds
    /\ get_yoy_index(fetched_data[SeriesA]) = -13
    /\ Len(fetched_data[SeriesB]) = 5
    /\ TheResult \notin {None, Raise}
    /\ TheResult.detail = EmptyText

-----------------------------------------------------------------------------
(* The entries of the cache (Spec) *)

\* the vectors whose fetch the loop has completed
CompletedIds == {all_vectors[i].id : i \in 1..Completed}

\* C29: at every point of a run of fetch_minister_data every entry of the
\* cache is a Series of at least one observation; a vector whose fetch
\* returned nothing, or for which the service has no usable observation,
\* gets no entry and is counted as failed.
C29_CacheEntriesNonEmpty ==
    /\ [](script = "fetch_minister_data" =>
            /\ \A id \in DOMAIN fetched_data : Len(fetched_data[id]) >= 1
            /\ DOMAIN fetched_data \subseteq CompletedIds
            /\ \A id \in CompletedIds : Delivered(id) = <<>> => id \notin DOMAIN fetched_data
            /\ success = Cardinality(DOMAIN fetched_data)
            /\ fail = Cardinality(CompletedIds \ DOMAIN fetched_data))
    /\ [][(script = "fetch_minister_data" /\ pc = "fetched" /\ ret = None) =>
            (fetched_data' = fetched_data /\ fail' = fail + 1 /\ success' = success)]_vars

\* the strategies are about to run on a cache that lacks the vector the
\* service had only a missing value for, and holds another
C29_Witness ==
    /\ script = "fetch_minister_data"
    /\ pc = "compute"
    /\ fetched_data # <<>>
    /\ \E id \in CompletedIds :
         /\ remote[id] # <<>>
         /\ Delivered(id) = <<>>
         /\ id \notin DOMAIN fetched_data
    /\ fail >= 1

-----------------------------------------------------------------------------
(* The main value of a growth indicator by row count (SpecSite) *)

\* the rows of the file that carry a number
ValidRows ==
    IF official_csv = None THEN <<>>
    ELSE SelectSeq(official_csv.items, LAMBDA row : row.value \notin {NullVal, StrVal})

\* the number in the valid row at position `back` from the end
ValidBack(back) == ValidRows[Len(ValidRows) - back + 1].value.n

\* the main value is there, and it is the growth of the latest valid row
\* over the one at position `back` when that one is not zero
MainValueIsGrowthOver(back) ==
    /\ SiteData # None
    /\ SiteData.value # None
    /\ (ValidBack(back) # 0 =>
          SiteData.value = Num(PctChange(FromInt(ValidBack(1)), FromInt(ValidBack(back)))))

MainValueAbsent == SiteData # None /\ SiteData.value = None

\* C30: for a Quarterly indicator whose unit is not a dollar unit the main
\* value is the year-over-year growth when the file has 5 or more valid
\* rows, the quarter-over-quarter growth when it has 2 to 4, and absent when
\* it has 1; for a Monthly growth indicator it is absent whenever the file
\* has fewer than 13 valid rows.
C30_MainValueByRowCount ==
    (SiteRead /\ Len(ValidRows) >= 1) =>
      /\ (TheIndicator.frequency = "Quarterly" /\ ~IsDollarUnit(TheIndicator.unit)) =>
           /\ Len(ValidRows) >= 5 => MainValueIsGrowthOver(5)
           /\ Len(ValidRows) \in 2..4 => MainValueIsGrowthOver(2)
           /\ Len(ValidRows) = 1 => MainValueAbsent
      /\ (TheIndicator.frequency = "Monthly" /\ TheIndicator.unit \in {"% y/y", "% annualized"}) =>
           (Len(ValidRows) < 13 => MainValueAbsent)

=============================================================================
